---------------------------- MODULE Spec2Model ----------------------------
(***************************************************************************)
(* LTL freight quoting: the controller's calculateShipping entrypoint, the *)
(* fulfillment service (origin, distance band, freight class, price table, *)
(* discount) and the external rate attempt with its local fallback.        *)
(*                                                                         *)
(* Numbers.  Distances are kept in meters (the distance collaborator's     *)
(* unit; distanceKm = meters / 1000).  Densities are exact rationals       *)
(* [num, den].  Density bounds and freight classes are kept in tenths      *)
(* (22.5 PCF = 225, class 92.5 = 925).  Rates are cents per hundredweight, *)
(* so an unrounded line price is rate * weight in 1/10000 of a dollar.     *)
(* Text.  Distance labels are sequences of one-character strings, so that  *)
(* includes / split / startsWith are computed on the characters.           *)
(***************************************************************************)
EXTENDS Integers, Sequences, FiniteSets, TLC

VARIABLES
    distanceKm,      \* the distance being banded, in meters
    distanceRange,   \* mapDistanceToRange(distanceKm), services/fulfillment.ts
    distanceRangeP1, \* mapDistanceToRange(distanceKm), unnamed/part_001
    calculations,    \* the freight-calculation (density) table, as the store returns it
    density,         \* the density being classified, a rational [num, den]
    freightClass,    \* findFreightClassByDensity(density), in tenths; NoClass before the call
    weightLb,        \* the weight a price is resolved for, in pounds
    matched,         \* findPricingEntries(freightClass, distanceRange), the matched row set
    priceResult,     \* findPriceAndRateByClassAndDistance(...); NoPrice for null
    originP1,        \* what getOriginPostalCode of unnamed/part_001 returned or threw
    firstRun,        \* outcome of an earlier calculateShipping call on the same inputs
    allPricings,     \* the freight-class-pricing table, in store order
    settings,        \* the discount-settings record
    boxes,           \* the boxes handed to calculateShippingForBoxes
    boxIndex,        \* number of boxes the loop has taken
    boxResults,      \* the BoxQuotes pushed so far
    subtotal,        \* running sum of unrounded line prices, 1/10000 dollar
    quote,           \* what calculateShippingForBoxes returned (NoQuote before)
    thrown,          \* message of the Error thrown and not caught yet ("" if none)
    svcOrigin,       \* originPostalCode inside the service's calculateShipping
    cart,            \* ctx.request.body.cart
    apiKey,          \* whether FREIGHTCOM_API_KEY is set
    warehouses,      \* the warehouse registry, in store order
    routes,          \* the distance collaborator's answer per origin postal code
    medusaSettings,  \* the medusa-discount-settings record
    originPostalCode, \* the controller's originPostalCode
    rateOrigin,      \* details.origin.address.postal_code of the rate request sent, "" before
    attempts,        \* firings of the interval timer so far
    inFlight,        \* poll requests sent and not answered yet
    rates,           \* what the polling promise resolved to
    medusaPrice,     \* null, NaN or a number (1/10000 dollar)
    medusaDiscountPercent,
    extRequested,    \* some request was sent to the external rate provider
    storeRead,       \* some reference table was read
    response,        \* the HTTP answer (status 0 before it is given)
    pc               \* position of the running operation

bandVars == <<distanceKm, distanceRange, distanceRangeP1>>
classVars == <<density, freightClass>>
priceVars == <<weightLb, matched, priceResult>>
p1Vars == <<originP1>>
rerunVars == <<firstRun>>
tableVars == <<calculations, allPricings, settings>>
boxVars == <<boxes, boxIndex, boxResults, subtotal, quote, thrown, svcOrigin>>
inputVars == <<cart, apiKey, warehouses, routes, medusaSettings>>
ctlVars == <<originPostalCode, rateOrigin, attempts, inFlight, rates, medusaPrice, medusaDiscountPercent,
             extRequested, storeRead, response>>

vars == <<bandVars, classVars, priceVars, p1Vars, rerunVars, tableVars, boxVars, inputVars, ctlVars, pc>>

-----------------------------------------------------------------------------
(* Bounds of the checked inputs *)

MaxDistanceKm == 1100
MaxDensity == 60
MaxBoxes == 2
MaxTicks == 32
MaxInFlight == 2

-----------------------------------------------------------------------------
(* Text helpers *)

NoLabel == << >>

Digit(n) == CASE n = 0 -> "0" [] n = 1 -> "1" [] n = 2 -> "2" [] n = 3 -> "3"
              [] n = 4 -> "4" [] n = 5 -> "5" [] n = 6 -> "6" [] n = 7 -> "7"
              [] n = 8 -> "8" [] n = 9 -> "9"

RECURSIVE DecimalString(_)
DecimalString(n) ==
    IF n < 10 THEN <<Digit(n)>> ELSE DecimalString(n \div 10) \o <<Digit(n % 10)>>

\* '{min}-{max}km'
RangeLabel(min, max) ==
    DecimalString(min) \o <<"-">> \o DecimalString(max) \o <<"k", "m">>

OpenLabel == <<"1", "0", "0", "0", "+", "k", "m">>

-----------------------------------------------------------------------------
(* DistanceBander *)

\* distanceKm < km, for a distance held in meters
KmBelow(meters, km) == meters < km * 1000
KmAtLeast(meters, km) == meters >= km * 1000

mapDistanceToRange(d) ==
    IF KmBelow(d, 100) THEN <<"0", "-", "9", "9", "k", "m">>
    ELSE IF KmBelow(d, 200) THEN <<"1", "0", "0", "-", "1", "9", "9", "k", "m">>
    ELSE IF KmBelow(d, 300) THEN <<"2", "0", "0", "-", "2", "9", "9", "k", "m">>
    ELSE IF KmBelow(d, 400) THEN <<"3", "0", "0", "-", "3", "9", "9", "k", "m">>
    ELSE IF KmBelow(d, 500) THEN <<"4", "0", "0", "-", "4", "9", "9", "k", "m">>
    ELSE IF KmBelow(d, 600) THEN <<"5", "0", "0", "-", "5", "9", "9", "k", "m">>
    ELSE IF KmBelow(d, 700) THEN <<"6", "0", "0", "-", "6", "9", "9", "k", "m">>
    ELSE IF KmBelow(d, 800) THEN <<"7", "0", "0", "-", "7", "9", "9", "k", "m">>
    ELSE IF KmBelow(d, 900) THEN <<"8", "0", "0", "-", "8", "9", "9", "k", "m">>
    ELSE IF KmBelow(d, 1000) THEN <<"9", "0", "0", "-", "9", "9", "9", "k", "m">>
    ELSE OpenLabel

\* the [min, max, label] table of the second implementation
ranges ==
    << [min |-> 0,   max |-> 99,  range |-> <<"0", "-", "9", "9", "k", "m">>],
       [min |-> 100, max |-> 199, range |-> <<"1", "0", "0", "-", "1", "9", "9", "k", "m">>],
       [min |-> 200, max |-> 299, range |-> <<"2", "0", "0", "-", "2", "9", "9", "k", "m">>],
       [min |-> 300, max |-> 399, range |-> <<"3", "0", "0", "-", "3", "9", "9", "k", "m">>],
       [min |-> 400, max |-> 499, range |-> <<"4", "0", "0", "-", "4", "9", "9", "k", "m">>],
       [min |-> 500, max |-> 599, range |-> <<"5", "0", "0", "-", "5", "9", "9", "k", "m">>],
       [min |-> 600, max |-> 699, range |-> <<"6", "0", "0", "-", "6", "9", "9", "k", "m">>],
       [min |-> 700, max |-> 799, range |-> <<"7", "0", "0", "-", "7", "9", "9", "k", "m">>],
       [min |-> 800, max |-> 899, range |-> <<"8", "0", "0", "-", "8", "9", "9", "k", "m">>],
       [min |-> 900, max |-> 999, range |-> <<"9", "0", "0", "-", "9", "9", "9", "k", "m">>] >>

\* for (const [min, max, range] of ranges) if (d >= min && d < max) return range
mapDistanceToRangeP1(d) ==
    LET hits == {i \in 1..Len(ranges) :
                    KmAtLeast(d, ranges[i].min) /\ KmBelow(d, ranges[i].max)}
    IN  IF hits = {} THEN OpenLabel
        ELSE ranges[CHOOSE i \in hits : \A j \in hits : i <= j].range

-----------------------------------------------------------------------------
(* FreightClassifier *)

\* Rational numbers [num, den] with den > 0, compared with a bound held in tenths
Rat(n, d) == IF d < 0 THEN [num |-> 0 - n, den |-> 0 - d] ELSE [num |-> n, den |-> d]
RatBelow(q, tenths) == q.num * 10 < tenths * q.den
RatAtLeast(q, tenths) == q.num * 10 >= tenths * q.den
RatAbove(q, tenths) == q.num * 10 > tenths * q.den

\* The three label forms of densityRange, bounds in tenths:
\* 'Less than X', 'A but less than B', 'X or greater'
LessThan(x) == [form |-> "Less than", min |-> 0, max |-> x]
ButLessThan(a, b) == [form |-> "but less than", min |-> a, max |-> b]
OrGreater(x) == [form |-> "or greater", min |-> x, max |-> 0]

\* the seeded freight-calculation rows
freightCalculations ==
    << [sub |-> 1,  densityRange |-> LessThan(10),         assignedFreightClass |-> 4000],
       [sub |-> 2,  densityRange |-> ButLessThan(10, 20),   assignedFreightClass |-> 3000],
       [sub |-> 3,  densityRange |-> ButLessThan(20, 40),   assignedFreightClass |-> 2500],
       [sub |-> 4,  densityRange |-> ButLessThan(40, 60),   assignedFreightClass |-> 1750],
       [sub |-> 5,  densityRange |-> ButLessThan(60, 80),   assignedFreightClass |-> 1250],
       [sub |-> 6,  densityRange |-> ButLessThan(80, 100),  assignedFreightClass |-> 1000],
       [sub |-> 7,  densityRange |-> ButLessThan(100, 120), assignedFreightClass |-> 925],
       [sub |-> 8,  densityRange |-> ButLessThan(120, 150), assignedFreightClass |-> 850],
       [sub |-> 9,  densityRange |-> ButLessThan(150, 225), assignedFreightClass |-> 700],
       [sub |-> 10, densityRange |-> ButLessThan(225, 300), assignedFreightClass |-> 650],
       [sub |-> 11, densityRange |-> ButLessThan(300, 350), assignedFreightClass |-> 600],
       [sub |-> 12, densityRange |-> ButLessThan(350, 500), assignedFreightClass |-> 550],
       [sub |-> 13, densityRange |-> OrGreater(500),        assignedFreightClass |-> 500] >>

\* null, and the class 0 that `|| null` and `!calculatedFreightClass` treat alike
NoClass == 0

\* calculations.sort((a, b) => a.sub - b.sub): ascending by sub, stable
RECURSIVE InsertBySub(_, _)
InsertBySub(row, s) ==
    IF s = << >> THEN <<row>>
    ELSE IF s[Len(s)].sub <= row.sub THEN Append(s, row)
    ELSE Append(InsertBySub(row, SubSeq(s, 1, Len(s) - 1)), s[Len(s)])

\* the rows left in the order the store returned them
StoreOrder(s) == s

RECURSIVE SortBySub(_)
SortBySub(s) ==
    IF s = << >> THEN << >>
    ELSE InsertBySub(s[Len(s)], SortBySub(SubSeq(s, 1, Len(s) - 1)))

\* the row test with the lower bound of a between-row taken as exclusive
RowMatchesStrictMin(calc, d) ==
    LET range == calc.densityRange
    IN  \/ range = LessThan(10) /\ RatBelow(d, 10)
        \/ /\ range.form = "but less than"
           /\ RatAbove(d, range.min)
           /\ RatBelow(d, range.max)
        \/ range = OrGreater(500) /\ RatAtLeast(d, 500)

\* the test one row of the loop applies to the density
RowMatches(calc, d) ==
    LET range == calc.densityRange
    IN  \/ range = LessThan(10) /\ RatBelow(d, 10)
        \/ /\ range.form = "but less than"
           /\ RatAtLeast(d, range.min)
           /\ RatBelow(d, range.max)
        \/ range = OrGreater(500) /\ RatAtLeast(d, 500)

findFreightClassByDensity(d, table) ==
    LET sorted == SortBySub(table)
        hits == {i \in 1..Len(sorted) : RowMatches(sorted[i], d)}
    IN  IF hits # {}
        THEN sorted[CHOOSE i \in hits : \A j \in hits : i <= j].assignedFreightClass
        ELSE IF sorted = << >> THEN NoClass
        ELSE sorted[Len(sorted)].assignedFreightClass

-----------------------------------------------------------------------------
(* PricingResolver *)

\* Math.round of a class held in tenths
MathRound(tenths) == (tenths + 5) \div 10

\* parseFloat(x.toFixed(k)): n / d rounded to the nearest integer, halves away from 0
RoundDiv(n, d) ==
    IF n >= 0 THEN (2 * n + d) \div (2 * d) ELSE 0 - ((2 * (0 - n) + d) \div (2 * d))

\* distance.includes('-')
Includes(str, ch) == \E i \in 1..Len(str) : str[i] = ch

\* distance.split('-')[0].trim(): the characters before the first '-'
RangeStart(str) ==
    LET first == CHOOSE i \in 1..Len(str) :
                     str[i] = "-" /\ \A j \in 1..(i - 1) : str[j] # "-"
    IN  SubSeq(str, 1, first - 1)

\* pDistance.startsWith(prefix)
StartsWith(str, prefix) ==
    Len(prefix) <= Len(str) /\ SubSeq(str, 1, Len(prefix)) = prefix

\* A pricing row: freightClass (integer), distance (text), breakpointValue with
\* hasBreakpoint FALSE for null / undefined, price (cents per hundredweight)
PricingRow(c, dist, hasBp, bp, price) ==
    [freightClass |-> c, distance |-> dist, hasBreakpoint |-> hasBp,
     breakpointValue |-> bp, price |-> price]

\* findMany({ filters: { freightClass } }) and ({ filters: { freightClass, distance } })
ByClass(table, c) == SelectSeq(table, LAMBDA p : p.freightClass = c)
ByClassAndDistance(table, c, dist) ==
    SelectSeq(table, LAMBDA p : p.freightClass = c /\ p.distance = dist)

\* a lookup that takes every row of the class, whatever its distance
findPricingEntriesClassOnly(fc, distance, table) == ByClass(table, MathRound(fc))

\* a lookup without the class-only tier
findPricingEntriesNoClassTier(fc, distance, table) ==
    LET freightClassInt == MathRound(fc)
        exact == ByClassAndDistance(table, freightClassInt, distance)
    IN  IF exact = << >> /\ Includes(distance, "-")
        THEN LET rangeStart == RangeStart(distance)
             IN  SelectSeq(ByClass(table, freightClassInt),
                           LAMBDA p : \/ p.distance = distance
                                      \/ StartsWith(p.distance, rangeStart)
                                      \/ p.distance = rangeStart)
        ELSE exact

\* the three lookup tiers
findPricingEntries(fc, distance, table) ==
    LET freightClassInt == MathRound(fc)
        exact == ByClassAndDistance(table, freightClassInt, distance)
        relaxed ==
            IF exact = << >> /\ Includes(distance, "-")
            THEN LET rangeStart == RangeStart(distance)
                 IN  SelectSeq(ByClass(table, freightClassInt),
                               LAMBDA p : \/ p.distance = distance
                                          \/ StartsWith(p.distance, rangeStart)
                                          \/ p.distance = rangeStart)
            ELSE exact
    IN  IF relaxed = << >> THEN ByClass(table, freightClassInt) ELSE relaxed

\* .sort((a, b) => a.breakpointValue - b.breakpointValue): ascending, stable
RECURSIVE InsertByBreakpoint(_, _)
InsertByBreakpoint(row, s) ==
    IF s = << >> THEN <<row>>
    ELSE IF s[Len(s)].breakpointValue <= row.breakpointValue THEN Append(s, row)
    ELSE Append(InsertByBreakpoint(row, SubSeq(s, 1, Len(s) - 1)), s[Len(s)])

RECURSIVE SortByBreakpoint(_)
SortByBreakpoint(s) ==
    IF s = << >> THEN << >>
    ELSE InsertByBreakpoint(s[Len(s)], SortByBreakpoint(SubSeq(s, 1, Len(s) - 1)))

\* a selection that stops at the first breakpoint the weight reaches
selectPricingByWeightFirstReached(pricings, weight) ==
    LET sorted == SortByBreakpoint(SelectSeq(pricings, LAMBDA p : p.hasBreakpoint))
        reached == {i \in 1..Len(sorted) : weight >= sorted[i].breakpointValue}
    IN  IF reached # {} THEN <<sorted[CHOOSE i \in reached : \A j \in reached : i <= j]>>
        ELSE IF pricings # << >> THEN <<pricings[1]>>
        ELSE << >>

\* a selection without the catch-all step
selectPricingByWeightNoCatchAll(pricings, weight) ==
    LET sorted == SortByBreakpoint(SelectSeq(pricings, LAMBDA p : p.hasBreakpoint))
        tiers == {i \in 1..Len(sorted) :
                     /\ weight >= sorted[i].breakpointValue
                     /\ (i = Len(sorted) \/ weight < sorted[i + 1].breakpointValue)}
    IN  IF tiers # {} THEN <<sorted[CHOOSE i \in tiers : \A j \in tiers : i <= j]>>
        ELSE IF sorted # << >> THEN <<sorted[Len(sorted)]>>
        ELSE << >>

\* a selection that takes the lowest breakpoint for a weight below all of them
selectPricingByWeightLowestBelow(pricings, weight) ==
    LET sorted == SortByBreakpoint(SelectSeq(pricings, LAMBDA p : p.hasBreakpoint))
        tiers == {i \in 1..Len(sorted) :
                     /\ weight >= sorted[i].breakpointValue
                     /\ (i = Len(sorted) \/ weight < sorted[i + 1].breakpointValue)}
        catchAll == SelectSeq(pricings,
                        LAMBDA p : ~p.hasBreakpoint \/ p.breakpointValue = 0)
    IN  IF tiers # {} THEN <<sorted[CHOOSE i \in tiers : \A j \in tiers : i <= j]>>
        ELSE IF sorted # << >> THEN <<sorted[1]>>
        ELSE IF catchAll # << >> THEN <<catchAll[1]>>
        ELSE << >>

\* the weight tier of a row set; << >> stands for null, <<row>> for the selected row
selectPricingByWeight(pricings, weight) ==
    LET sorted == SortByBreakpoint(SelectSeq(pricings, LAMBDA p : p.hasBreakpoint))
        tiers == {i \in 1..Len(sorted) :
                     /\ weight >= sorted[i].breakpointValue
                     /\ (i = Len(sorted) \/ weight < sorted[i + 1].breakpointValue)}
        catchAll == SelectSeq(pricings,
                        LAMBDA p : ~p.hasBreakpoint \/ p.breakpointValue = 0)
    IN  IF tiers # {} THEN <<sorted[CHOOSE i \in tiers : \A j \in tiers : i <= j]>>
        ELSE IF sorted # << >> THEN <<sorted[Len(sorted)]>>
        ELSE IF catchAll # << >> THEN <<catchAll[1]>>
        ELSE << >>

\* null is [found |-> FALSE]; price is ratePerCwt * (weight / 100) in 1/10000 dollar
NoPrice == [found |-> FALSE, price |-> 0, ratePerCwt |-> 0]

findPriceAndRateByClassAndDistance(fc, distance, weight, table) ==
    LET pricings == findPricingEntries(fc, distance, table)
        selected == selectPricingByWeight(pricings, weight)
    IN  IF pricings = << >> \/ selected = << >> THEN NoPrice
        ELSE [found |-> TRUE,
              price |-> selected[1].price * weight,
              ratePerCwt |-> selected[1].price]

-----------------------------------------------------------------------------
(* QuoteAssembler: calculateShippingForBoxes *)

BoxFields == {"length", "width", "height", "weight"}

\* A box: four numbers, and the set of fields the request left out
Box(l, w, h, wt, absent) ==
    [length |-> l, width |-> w, height |-> h, weight |-> wt, absent |-> absent]

\* !box.f : the field is undefined / null or 0
Falsy(box, f) == f \in box.absent \/ box[f] = 0

\* if (!length || !width || !height || !weight) throw
BoxIsMissingFields(box) == \E f \in BoxFields : Falsy(box, f)

\* cubic inches taken for cubic feet by a decimal divisor
calculateCubicFeetDecimal(l, w, h) == Rat(l * w * h, 1000)

calculateCubicFeet(l, w, h) == Rat(l * w * h, 1728)

calculateDensity(l, w, h, weight) ==
    IF weight <= 0 THEN Rat(0, 1) ELSE Rat(weight * 1728, l * w * h)

ErrBoxMissing == "Box missing dimensions or weight"
ErrNoFreightClass == "Could not determine freight class"
ErrNoPricingData == "No freight class pricing data found in database"
ErrNoPricing == "Could not find pricing"

Abs(n) == IF n < 0 THEN 0 - n ELSE n
Max(a, b) == IF a >= b THEN a ELSE b

\* [...new Set(allPricings.map(p => Number(p.freightClass)))]
availableClasses(table) == {table[i].freightClass : i \in 1..Len(table)}

\* a reduce that also replaces on an equal difference
nearestClassHighestOnTie(fc, classes) ==
    CHOOSE c \in classes :
        \A o \in classes :
            \/ Abs(c * 10 - fc) < Abs(o * 10 - fc)
            \/ (Abs(c * 10 - fc) = Abs(o * 10 - fc) /\ c >= o)

\* reduce over the ascending classes, replacing only on a strictly smaller difference
nearestClassOf(fc, classes) ==
    CHOOSE c \in classes :
        \A o \in classes :
            \/ Abs(c * 10 - fc) < Abs(o * 10 - fc)
            \/ (Abs(c * 10 - fc) = Abs(o * 10 - fc) /\ c <= o)

\* nearest-class fallback that goes on with price 0 when the table holds no class
nearestClassFallbackNoCheck(fc, distance, weight, table) ==
    LET classes == availableClasses(table)
    IN  IF classes = {}
        THEN [error |-> "", priceResult |-> [found |-> TRUE, price |-> 0, ratePerCwt |-> 0],
              freightClassUsed |-> fc]
        ELSE LET nearest == nearestClassOf(fc, classes)
                 retry == findPriceAndRateByClassAndDistance(nearest * 10, distance, weight, table)
             IN  IF ~retry.found
                 THEN [error |-> ErrNoPricing, priceResult |-> NoPrice, freightClassUsed |-> fc]
                 ELSE [error |-> "", priceResult |-> retry, freightClassUsed |-> nearest * 10]

\* if (!priceResult) { ... nearest available freight class ... }
nearestClassFallback(fc, distance, weight, table) ==
    LET classes == availableClasses(table)
    IN  IF classes = {}
        THEN [error |-> ErrNoPricingData, priceResult |-> NoPrice, freightClassUsed |-> fc]
        ELSE LET nearest == nearestClassOf(fc, classes)
                 retry == findPriceAndRateByClassAndDistance(nearest * 10, distance, weight, table)
             IN  IF ~retry.found
                 THEN [error |-> ErrNoPricing, priceResult |-> NoPrice, freightClassUsed |-> fc]
                 ELSE [error |-> "", priceResult |-> retry, freightClassUsed |-> nearest * 10]

\* a resolution that reports the class it looked up, rounded, from the first attempt on
resolvePriceReportingRounded(fc, distance, weight, table) ==
    LET first == findPriceAndRateByClassAndDistance(fc, distance, weight, table)
        roundedClass == MathRound(fc) * 10
    IN  IF first.found
        THEN [error |-> "", priceResult |-> first, freightClassUsed |-> roundedClass]
        ELSE nearestClassFallback(fc, distance, weight, table)

\* the price of one classified box: first attempt, rounded retry, nearest class
resolvePrice(fc, distance, weight, table) ==
    LET first == findPriceAndRateByClassAndDistance(fc, distance, weight, table)
        roundedClass == MathRound(fc) * 10
        second == IF ~first.found /\ fc % 10 # 0
                  THEN findPriceAndRateByClassAndDistance(roundedClass, distance, weight, table)
                  ELSE first
    IN  IF first.found
        THEN [error |-> "", priceResult |-> first, freightClassUsed |-> fc]
        ELSE IF second.found
        THEN [error |-> "", priceResult |-> second, freightClassUsed |-> roundedClass]
        ELSE nearestClassFallback(fc, distance, weight, table)

NoBoxQuote ==
    [weightLbs |-> 0, cubicFeet |-> Rat(0, 1), densityPcf |-> Rat(0, 1), freightClass |-> NoClass,
     distanceKm |-> 0, ratePerCwt |-> 0, price |-> 0, unrounded |-> 0,
     lengthIn |-> 0, widthIn |-> 0, heightIn |-> 0]

\* One turn of the loop body for one box: the Error it throws, or the BoxQuote it
\* pushes.  price is the reported price in cents (toFixed(2)); ratePerCwt is the
\* reported rate, in cents and rounded to a tenth of a dollar (toFixed(1));
\* unrounded is priceResult.price, which is what the subtotal accumulates.
BoxOutcome(box, km, distance, densTable, priceTable) ==
    IF BoxIsMissingFields(box) THEN [error |-> ErrBoxMissing, result |-> NoBoxQuote]
    ELSE
    LET cubicFeet == calculateCubicFeet(box.length, box.width, box.height)
        dens == calculateDensity(box.length, box.width, box.height, box.weight)
        fc == findFreightClassByDensity(dens, densTable)
    IN  IF fc = NoClass THEN [error |-> ErrNoFreightClass, result |-> NoBoxQuote]
        ELSE
        LET r == resolvePrice(fc, distance, box.weight, priceTable)
        IN  IF r.error # "" THEN [error |-> r.error, result |-> NoBoxQuote]
            ELSE [error |-> "",
                  result |->
                    [weightLbs |-> box.weight, cubicFeet |-> cubicFeet, densityPcf |-> dens,
                     freightClass |-> r.freightClassUsed, distanceKm |-> km,
                     ratePerCwt |-> RoundDiv(r.priceResult.ratePerCwt, 10) * 10,
                     price |-> RoundDiv(r.priceResult.price, 100),
                     unrounded |-> r.priceResult.price,
                     lengthIn |-> box.length, widthIn |-> box.width,
                     heightIn |-> box.height]]

\* the discount-settings record; exists FALSE when the store holds none
Settings(exists, enabled, pct) ==
    [exists |-> exists, isDiscountEnabled |-> enabled, discountPercentage |-> pct]

\* settings?.isDiscountEnabled && settings?.discountPercentage ? settings.discountPercentage : 0
discountPercentOf(s) ==
    IF s.exists /\ s.isDiscountEnabled /\ s.discountPercentage # 0
    THEN s.discountPercentage ELSE 0

NoQuote ==
    [returned |-> FALSE, distanceKm |-> 0, chosenWarehouse |-> "", boxes |-> << >>,
     subtotal |-> 0, discountPercent |-> 0, total |-> 0]

\* the returned object; chosenWarehouse is chosenWarehouse.postalCode; subtotal and
\* total in 1/1000 dollar (toFixed(3))
ShipmentQuote(km, origin, results, sub, s) ==
    LET discountPercent == discountPercentOf(s)
    IN  [returned |-> TRUE, distanceKm |-> km, chosenWarehouse |-> origin, boxes |-> results,
         subtotal |-> RoundDiv(sub, 10),
         discountPercent |-> discountPercent,
         total |-> RoundDiv(sub * (100 - discountPercent), 1000)]

\* a loop that leaves a failing box out and goes on with the next one
ProcessBoxSkippingFailures ==
    /\ pc = "boxes"
    /\ boxIndex < Len(boxes)
    /\ \E out \in {BoxOutcome(boxes[boxIndex + 1], distanceKm, distanceRange,
                                calculations, allPricings)} :
           /\ boxIndex' = boxIndex + 1
           /\ boxResults' = IF out.error # "" THEN boxResults
                            ELSE Append(boxResults, out.result)
           /\ subtotal' = IF out.error # "" THEN subtotal ELSE subtotal + out.result.unrounded
           /\ UNCHANGED <<pc, thrown>>
    /\ UNCHANGED <<bandVars, classVars, priceVars, p1Vars, rerunVars, tableVars, boxes, quote, svcOrigin, inputVars, ctlVars>>

\* a loop that adds up the prices as they are reported, rounded to the cent
ProcessBoxSummingRounded ==
    /\ pc = "boxes"
    /\ boxIndex < Len(boxes)
    /\ \E out \in {BoxOutcome(boxes[boxIndex + 1], distanceKm, distanceRange,
                                calculations, allPricings)} :
           /\ boxIndex' = boxIndex + 1
           /\ IF out.error # ""
              THEN /\ thrown' = out.error
                   /\ pc' = "thrown"
                   /\ UNCHANGED <<boxResults, subtotal>>
              ELSE /\ boxResults' = Append(boxResults, out.result)
                   /\ subtotal' = subtotal + out.result.price * 100
                   /\ UNCHANGED <<pc, thrown>>
    /\ UNCHANGED <<bandVars, classVars, priceVars, p1Vars, rerunVars, tableVars, boxes, quote, svcOrigin,
                   inputVars, ctlVars>>

\* for (const box of boxes) { ... }: one iteration; out is the body's outcome for
\* the box, computed once
ProcessBox ==
    /\ pc = "boxes"
    /\ boxIndex < Len(boxes)
    /\ \E out \in {BoxOutcome(boxes[boxIndex + 1], distanceKm, distanceRange,
                                calculations, allPricings)} :
           /\ boxIndex' = boxIndex + 1
           /\ IF out.error # ""
              THEN /\ thrown' = out.error
                   /\ pc' = "thrown"
                   /\ UNCHANGED <<boxResults, subtotal>>
              ELSE /\ boxResults' = Append(boxResults, out.result)
                   /\ subtotal' = subtotal + out.result.unrounded
                   /\ UNCHANGED <<pc, thrown>>
    /\ UNCHANGED <<bandVars, classVars, priceVars, p1Vars, rerunVars, tableVars, boxes, quote, svcOrigin, inputVars, ctlVars>>

\* after the loop: read the discount settings and return the quote
ReturnQuote ==
    /\ pc = "boxes"
    /\ boxIndex = Len(boxes)
    /\ quote' = ShipmentQuote(distanceKm, svcOrigin, boxResults, subtotal, settings)
    /\ pc' = "returned"
    /\ UNCHANGED <<bandVars, classVars, priceVars, p1Vars, rerunVars, tableVars, boxes, boxIndex, boxResults, subtotal, thrown,
                   svcOrigin, inputVars, ctlVars>>

-----------------------------------------------------------------------------
(* OriginResolver and the service's calculateShipping *)

Warehouse(id, name, postal, channel) ==
    [documentId |-> id, name |-> name, postalCode |-> postal, salesChannelId |-> channel]

\* postal codes an origin can take; "" is a missing postalCode
PostalCodes == {"", "H1A 0A1", "M5V 2T6", "H2K 4P5", "L0L 1P0", "J3E 0C4"}

Route(ok, meters) == [ok |-> ok, meters |-> meters]
NoRoutes == [p \in PostalCodes |-> Route(FALSE, 0)]

ErrDistance == "Failed to calculate distance"
ErrNoWarehouse == "No warehouses found in database"
ErrItemsOrBoxes == "Either items or boxes array is required"
ErrItemMissing == "Item missing dimensions or weight"

\* calculateDistance(origin, destination): kilometers (held in meters) or an Error
calculateDistance(origin, table) ==
    IF table[origin].ok THEN [error |-> "", km |-> table[origin].meters]
    ELSE [error |-> ErrDistance, km |-> 0]

\* the loop with `distance <= minDistance`: the last of two equally near wins
RECURSIVE closestWarehouseLastOnTie(_, _, _, _, _)
closestWarehouseLastOnTie(whs, table, i, closest, min) ==
    IF i > Len(whs) THEN closest
    ELSE LET d == calculateDistance(whs[i].postalCode, table)
         IN  IF whs[i].postalCode = "" \/ d.error # ""
             THEN closestWarehouseLastOnTie(whs, table, i + 1, closest, min)
             ELSE IF min < 0 \/ d.km <= min
             THEN closestWarehouseLastOnTie(whs, table, i + 1, whs[i], d.km)
             ELSE closestWarehouseLastOnTie(whs, table, i + 1, closest, min)

\* the loop over allWarehouses; min < 0 stands for Infinity
RECURSIVE closestWarehouseFrom(_, _, _, _, _)
closestWarehouseFrom(whs, table, i, closest, min) ==
    IF i > Len(whs) THEN closest
    ELSE LET d == calculateDistance(whs[i].postalCode, table)
         IN  IF whs[i].postalCode = "" \/ d.error # ""
             THEN closestWarehouseFrom(whs, table, i + 1, closest, min)
             ELSE IF min < 0 \/ d.km < min
             THEN closestWarehouseFrom(whs, table, i + 1, whs[i], d.km)
             ELSE closestWarehouseFrom(whs, table, i + 1, closest, min)

\* warehouseId 0 and salesChannelId "" are the absent values
getOriginPostalCode(salesChannelId, destinationPostalCode, warehouseId, whs, table) ==
    LET byId == IF warehouseId # 0
                THEN SelectSeq(whs, LAMBDA w : w.documentId = warehouseId) ELSE << >>
        byChannel == IF salesChannelId # ""
                     THEN SelectSeq(whs, LAMBDA w : w.salesChannelId = salesChannelId)
                     ELSE << >>
    IN  IF byId # << >> /\ byId[1].postalCode # ""
        THEN [error |-> "", postalCode |-> byId[1].postalCode]
        ELSE IF byChannel # << >>
        THEN [error |-> "", postalCode |-> byChannel[1].postalCode]
        ELSE IF destinationPostalCode # "" /\ whs # << >>
        THEN IF Len(whs) = 1
             THEN [error |-> "", postalCode |-> whs[1].postalCode]
             ELSE [error |-> "",
                   postalCode |-> closestWarehouseFrom(whs, table, 1, whs[1], 0 - 1).postalCode]
        ELSE IF whs # << >>
        THEN [error |-> "", postalCode |-> whs[1].postalCode]
        ELSE [error |-> ErrNoWarehouse, postalCode |-> ""]

\* findClosestWarehouse of the second implementation; << >> stands for null
findClosestWarehouse(whs, table) ==
    IF whs = << >> THEN << >>
    ELSE IF Len(whs) = 1 THEN <<whs[1]>>
    ELSE <<closestWarehouseFrom(whs, table, 1, whs[1], 0 - 1)>>

\* getOriginPostalCode of the second implementation: every step needs a postal code
getOriginPostalCodeP1(salesChannelId, destinationPostalCode, warehouseId, whs, table) ==
    LET byId == IF warehouseId # 0
                THEN SelectSeq(whs, LAMBDA w : w.documentId = warehouseId) ELSE << >>
        byChannel == IF salesChannelId # ""
                     THEN SelectSeq(whs, LAMBDA w : w.salesChannelId = salesChannelId)
                     ELSE << >>
        closest == IF destinationPostalCode # "" THEN findClosestWarehouse(whs, table)
                   ELSE << >>
    IN  IF byId # << >> /\ byId[1].postalCode # ""
        THEN [error |-> "", postalCode |-> byId[1].postalCode]
        ELSE IF byChannel # << >> /\ byChannel[1].postalCode # ""
        THEN [error |-> "", postalCode |-> byChannel[1].postalCode]
        ELSE IF closest # << >> /\ closest[1].postalCode # ""
        THEN [error |-> "", postalCode |-> closest[1].postalCode]
        ELSE IF whs # << >> /\ whs[1].postalCode # ""
        THEN [error |-> "", postalCode |-> whs[1].postalCode]
        ELSE [error |-> ErrNoWarehouse, postalCode |-> ""]

\* A cart item: quantity (0 when absent) and its measurements, carried by item.product
Item(quantity, product) == [quantity |-> quantity, product |-> product]

\* quantity copies of a box; none for a quantity below 1
Copies(box, quantity) == [i \in 1..quantity |-> box]

\* for (const item of cart.items) { ... boxes.push(...) }
RECURSIVE itemsToBoxes(_)
itemsToBoxes(items) ==
    IF items = << >> THEN [error |-> "", boxes |-> << >>]
    ELSE LET item == items[1]
             quantity == IF item.quantity = 0 THEN 1 ELSE item.quantity
             rest == itemsToBoxes(SubSeq(items, 2, Len(items)))
         IN  IF BoxIsMissingFields(item.product)
             THEN [error |-> ErrItemMissing, boxes |-> << >>]
             ELSE IF rest.error # "" THEN rest
             ELSE [error |-> "",
                   boxes |-> Copies(Box(item.product.length, item.product.width,
                                        item.product.height, item.product.weight, {}),
                                    quantity) \o rest.boxes]

\* cart.boxes / cart.items: given is FALSE when the field is absent or not an array
ListField(given, list) == [given |-> given, list |-> list]
Address(given, postal) == [given |-> given, postal_code |-> postal]

Cart(boxList, itemList, address, warehouseId, salesChannelId) ==
    [exists |-> TRUE, boxes |-> boxList, items |-> itemList, shipping_address |-> address,
     warehouse_id |-> warehouseId, sales_channel_id |-> salesChannelId]

NoCart ==
    [exists |-> FALSE, boxes |-> ListField(FALSE, << >>), items |-> ListField(FALSE, << >>),
     shipping_address |-> Address(FALSE, ""), warehouse_id |-> 0, sales_channel_id |-> ""]

\* calculateShipping with the box results and the subtotal kept on the service
\* object, initialised at construction and not at each call
LocalStartKeepingTotals ==
    /\ pc = "local"
    /\ storeRead' = TRUE
    /\ LET destination == cart.shipping_address.postal_code
           origin == getOriginPostalCode(cart.sales_channel_id, destination,
                                         cart.warehouse_id, warehouses, routes)
           dist == calculateDistance(origin.postalCode, routes)
           converted == IF cart.boxes.given /\ cart.boxes.list # << >>
                        THEN [error |-> "", boxes |-> cart.boxes.list]
                        ELSE IF ~cart.items.given \/ cart.items.list = << >>
                        THEN [error |-> ErrItemsOrBoxes, boxes |-> << >>]
                        ELSE itemsToBoxes(cart.items.list)
           error == IF destination = "" THEN "Missing destination postal code"
                    ELSE IF origin.error # "" THEN origin.error
                    ELSE IF dist.error # "" THEN dist.error
                    ELSE converted.error
       IN  IF error # ""
           THEN /\ thrown' = error
                /\ pc' = "thrown"
                /\ UNCHANGED <<bandVars, boxes, boxIndex, boxResults, subtotal, quote, svcOrigin>>
           ELSE /\ svcOrigin' = origin.postalCode
                /\ distanceKm' = dist.km
                /\ distanceRange' = mapDistanceToRange(dist.km)
                /\ boxes' = converted.boxes
                /\ boxIndex' = 0
                /\ pc' = "boxes"
                /\ UNCHANGED <<distanceRangeP1, boxResults, subtotal, quote, thrown>>
    /\ UNCHANGED <<classVars, priceVars, p1Vars, rerunVars, tableVars, inputVars, originPostalCode, rateOrigin, attempts, inFlight, rates, medusaPrice,
                   medusaDiscountPercent, extRequested, response>>

\* service.calculateShipping(cart) up to its call of calculateShippingForBoxes
LocalStart ==
    /\ pc = "local"
    /\ storeRead' = TRUE
    /\ LET destination == cart.shipping_address.postal_code
           origin == getOriginPostalCode(cart.sales_channel_id, destination,
                                         cart.warehouse_id, warehouses, routes)
           dist == calculateDistance(origin.postalCode, routes)
           converted == IF cart.boxes.given /\ cart.boxes.list # << >>
                        THEN [error |-> "", boxes |-> cart.boxes.list]
                        ELSE IF ~cart.items.given \/ cart.items.list = << >>
                        THEN [error |-> ErrItemsOrBoxes, boxes |-> << >>]
                        ELSE itemsToBoxes(cart.items.list)
           error == IF destination = "" THEN "Missing destination postal code"
                    ELSE IF origin.error # "" THEN origin.error
                    ELSE IF dist.error # "" THEN dist.error
                    ELSE converted.error
       IN  IF error # ""
           THEN /\ thrown' = error
                /\ pc' = "thrown"
                /\ UNCHANGED <<bandVars, boxes, boxIndex, boxResults, subtotal, quote, svcOrigin>>
           ELSE /\ svcOrigin' = origin.postalCode
                /\ distanceKm' = dist.km
                /\ distanceRange' = mapDistanceToRange(dist.km)
                /\ boxes' = converted.boxes
                /\ boxIndex' = 0
                /\ boxResults' = << >>
                /\ subtotal' = 0
                /\ pc' = "boxes"
                /\ UNCHANGED <<distanceRangeP1, quote, thrown>>
    /\ UNCHANGED <<classVars, priceVars, p1Vars, rerunVars, tableVars, inputVars, originPostalCode, rateOrigin, attempts, inFlight, rates, medusaPrice,
                   medusaDiscountPercent, extRequested, response>>

-----------------------------------------------------------------------------
(* The controller's calculateShipping *)

SalesChannels ==
    {"sc_01GY1TR8XSSA865FXVJDQR9XCZ", "sc_01H54KV0V84HGG6PZD06T3J8C4",
     "sc_01H54KTSHXG7TYSRN9XND4HHQB"}

SALES_CHANNEL_POSTAL_CODES ==
    [c \in SalesChannels |->
        CASE c = "sc_01GY1TR8XSSA865FXVJDQR9XCZ" -> "H2K 4P5"
          [] c = "sc_01H54KV0V84HGG6PZD06T3J8C4" -> "L0L 1P0"
          [] c = "sc_01H54KTSHXG7TYSRN9XND4HHQB" -> "J3E 0C4"]

maxAttempts == 30

\* medusaPrice: null, NaN, or a number in 1/10000 dollar
Null == [kind |-> "null", value |-> 0]
NaN == [kind |-> "NaN", value |-> 0]
Num(v) == [kind |-> "number", value |-> v]

\* One rate of the provider's answer.  shape: "null" (a falsy entry), "noTotal" (no
\* total object), "noValue" (total without a numeric value), "number" (cents)
Rate(shape, cents) == [shape |-> shape, cents |-> cents]
NoRates == << >>

NoResponse ==
    [status |-> 0, message |-> "", boxNumber |-> 0, source |-> "", hasBoxes |-> FALSE,
     boxes |-> << >>, isNaN |-> FALSE, subtotal |-> 0, discountPercent |-> 0, total |-> 0,
     distanceKm |-> 0, chosenWarehouse |-> ""]

\* ctx.badRequest(message); boxNumber is the i + 1 the message names, 0 if none
BadRequest(message, boxNumber) ==
    [NoResponse EXCEPT !.status = 400, !.message = message, !.boxNumber = boxNumber]

FirstMissingBox(list) ==
    CHOOSE i \in 1..Len(list) :
        BoxIsMissingFields(list[i]) /\ \A j \in 1..(i - 1) : ~BoxIsMissingFields(list[j])

\* the request checks at the head of the handler
Validate ==
    /\ pc = "validate"
    /\ LET bad ==
           IF ~cart.exists THEN BadRequest("Cart object is required", 0)
           ELSE IF /\ (~cart.items.given \/ cart.items.list = << >>)
                   /\ (~cart.boxes.given \/ cart.boxes.list = << >>)
           THEN BadRequest("Either cart items array or boxes array is required", 0)
           ELSE IF /\ cart.boxes.given
                   /\ \E i \in 1..Len(cart.boxes.list) : BoxIsMissingFields(cart.boxes.list[i])
           THEN BadRequest("Box is missing required fields", FirstMissingBox(cart.boxes.list))
           ELSE IF ~cart.shipping_address.given
           THEN BadRequest("Shipping address is required", 0)
           ELSE IF cart.shipping_address.postal_code = ""
           THEN BadRequest("Shipping address postal_code is required", 0)
           ELSE NoResponse
       IN  IF bad.status = 400
           THEN response' = bad /\ pc' = "responded"
           ELSE pc' = "origin" /\ UNCHANGED response
    /\ UNCHANGED <<bandVars, classVars, priceVars, p1Vars, rerunVars, tableVars, boxVars, inputVars, originPostalCode, rateOrigin,
                   attempts, inFlight, rates, medusaPrice, medusaDiscountPercent, extRequested, storeRead>>

\* let originPostalCode: warehouse_id, then the constant map, then the service
ResolveOrigin ==
    /\ pc = "origin"
    /\ IF cart.warehouse_id # 0
       THEN LET found == SelectSeq(warehouses, LAMBDA w : w.documentId = cart.warehouse_id)
            IN  /\ originPostalCode' =
                       IF found # << >> /\ found[1].postalCode # ""
                       THEN found[1].postalCode
                       ELSE IF cart.sales_channel_id \in SalesChannels
                       THEN SALES_CHANNEL_POSTAL_CODES[cart.sales_channel_id]
                       ELSE "H2K 4P5"
                /\ storeRead' = TRUE
                /\ pc' = "external"
                /\ UNCHANGED thrown
       ELSE IF cart.sales_channel_id \in SalesChannels
       THEN /\ originPostalCode' = SALES_CHANNEL_POSTAL_CODES[cart.sales_channel_id]
            /\ pc' = "external"
            /\ UNCHANGED <<storeRead, thrown>>
       ELSE LET origin == getOriginPostalCode(cart.sales_channel_id,
                                              cart.shipping_address.postal_code,
                                              cart.warehouse_id, warehouses, routes)
            IN  /\ storeRead' = TRUE
                /\ IF origin.error # ""
                   THEN thrown' = origin.error /\ pc' = "thrown" /\ UNCHANGED originPostalCode
                   ELSE originPostalCode' = origin.postalCode /\ pc' = "external"
                        /\ UNCHANGED thrown
    /\ UNCHANGED <<bandVars, classVars, priceVars, p1Vars, rerunVars, tableVars, boxes, boxIndex, boxResults, subtotal, quote,
                   svcOrigin, inputVars, rateOrigin, attempts, inFlight, rates, medusaPrice,
                   medusaDiscountPercent, extRequested, response>>

\* the head of the inner try: the key check, then GET /services
GetServices ==
    /\ pc = "external"
    /\ IF ~apiKey
       THEN pc' = "local" /\ UNCHANGED extRequested
       ELSE /\ extRequested' = TRUE
            /\ \E answer \in {"error", "none", "services"} :
                   pc' = IF answer = "services" THEN "rate" ELSE "local"
    /\ UNCHANGED <<bandVars, classVars, priceVars, p1Vars, rerunVars, tableVars, boxVars, inputVars, originPostalCode, rateOrigin,
                   attempts, inFlight, rates, medusaPrice, medusaDiscountPercent, storeRead, response>>

\* POST /rate
PostRate ==
    /\ pc = "rate"
    /\ rateOrigin' = originPostalCode
    /\ \E accepted \in BOOLEAN :
           /\ pc' = IF accepted THEN "poll" ELSE "local"
           /\ attempts' = 0
    /\ UNCHANGED <<bandVars, classVars, priceVars, p1Vars, rerunVars, tableVars, boxVars, inputVars, originPostalCode,
                   inFlight, rates, medusaPrice, medusaDiscountPercent, extRequested, storeRead, response>>

RateInputs ==
    { Rate("null", 0), Rate("noTotal", 0), Rate("noValue", 0), Rate("number", 10000) }

\* the interval timer fires: attempts++, and GET /rate/:id is sent
PollTick ==
    /\ pc = "poll"
    /\ attempts < MaxTicks
    /\ inFlight < MaxInFlight
    /\ attempts' = attempts + 1
    /\ inFlight' = inFlight + 1
    /\ UNCHANGED <<bandVars, classVars, priceVars, p1Vars, rerunVars, tableVars, boxVars, inputVars,
                   originPostalCode, rateOrigin, rates, medusaPrice, medusaDiscountPercent, extRequested,
                   storeRead, response, pc>>

\* the promise resolves: clearInterval(timer); resolve(list); the attempts
\* counter lives until the promise's closure is left, and the requests still
\* unanswered stay in flight
Resolved(list) ==
    /\ rates' = list
    /\ inFlight' = inFlight - 1
    /\ pc' = "rates"
    /\ UNCHANGED attempts

\* the answer to one GET /rate/:id reaches its callback, which reads the shared
\* attempts counter as it is by then
PollResponse ==
    /\ pc = "poll"
    /\ inFlight > 0
    /\ \E answer \in {"error", "pending", "done"} :
        \E list \in {<< >>} \cup {<<r>> : r \in RateInputs} :
           CASE answer = "done" -> Resolved(list)
             [] answer = "pending" ->
                    /\ list = << >>
                    /\ IF attempts >= maxAttempts
                       THEN Resolved(<< >>)
                       ELSE inFlight' = inFlight - 1 /\ UNCHANGED <<attempts, rates, pc>>
             [] answer = "error" -> list = << >> /\ Resolved(<< >>)
    /\ UNCHANGED <<bandVars, classVars, priceVars, p1Vars, rerunVars, tableVars, boxVars, inputVars,
                   originPostalCode, rateOrigin, medusaPrice, medusaDiscountPercent, extRequested,
                   storeRead, response>>

\* the answer to a GET /rate/:id arrives after the promise was resolved: its
\* callback's clearInterval and resolve have no effect any more
LateResponse ==
    /\ pc # "poll"
    /\ inFlight > 0
    /\ inFlight' = inFlight - 1
    /\ UNCHANGED <<bandVars, classVars, priceVars, p1Vars, rerunVars, tableVars, boxVars, inputVars,
                   originPostalCode, rateOrigin, attempts, rates, medusaPrice,
                   medusaDiscountPercent, extRequested, storeRead, response, pc>>

\* Math.floor(cents * 1.15) / 100, in 1/10000 dollar
MarkedUp(cents) == ((cents * 115) \div 100) * 100

\* Math.max(0, price - price * (percent / 100))
Discounted(price, percent) ==
    CASE price.kind = "NaN" -> NaN
      [] price.kind = "number" -> Num(Max(0, (price.value \div 100) * (100 - percent)))

\* the rest of the inner try: the first rate, the markup, the medusa discount
TakeRate ==
    /\ pc = "rates"
    /\ pc' = "local"
    /\ IF rates = << >> \/ rates[1].shape \in {"null", "noTotal"}
       THEN UNCHANGED <<medusaPrice, medusaDiscountPercent, storeRead>>
       ELSE LET price == IF rates[1].shape = "noValue" THEN NaN
                         ELSE Num(MarkedUp(rates[1].cents))
            IN  /\ storeRead' = TRUE
                /\ IF /\ medusaSettings.exists
                      /\ medusaSettings.isDiscountEnabled
                      /\ medusaSettings.discountPercentage # 0
                   THEN /\ medusaDiscountPercent' = medusaSettings.discountPercentage
                        /\ medusaPrice' = Discounted(price, medusaSettings.discountPercentage)
                   ELSE /\ medusaPrice' = price
                        /\ UNCHANGED medusaDiscountPercent
    /\ attempts' = 0
    /\ UNCHANGED <<bandVars, classVars, priceVars, p1Vars, rerunVars, tableVars, boxVars, inputVars, originPostalCode, rateOrigin,
                   inFlight, rates, extRequested, response>>

\* ctx.body, once strapiResult is there
Respond ==
    /\ pc = "returned"
    /\ response' =
          IF medusaPrice.kind # "null"
          THEN [NoResponse EXCEPT
                    !.status = 200,
                    !.source = "MEDUSA_API",
                    !.isNaN = (medusaPrice.kind = "NaN"),
                    !.subtotal = RoundDiv(medusaPrice.value, 10),
                    !.total = RoundDiv(medusaPrice.value, 10),
                    !.discountPercent = medusaDiscountPercent,
                    !.distanceKm = quote.distanceKm,
                    !.chosenWarehouse = quote.chosenWarehouse]
          ELSE [NoResponse EXCEPT
                    !.status = 200,
                    !.source = "STRAPI_TABLE",
                    !.hasBoxes = TRUE,
                    !.boxes = quote.boxes,
                    !.subtotal = quote.subtotal,
                    !.total = quote.total,
                    !.discountPercent = quote.discountPercent,
                    !.distanceKm = quote.distanceKm,
                    !.chosenWarehouse = quote.chosenWarehouse]
    /\ pc' = "responded"
    /\ UNCHANGED <<bandVars, classVars, priceVars, p1Vars, rerunVars, tableVars, boxVars, inputVars, originPostalCode, rateOrigin,
                   attempts, inFlight, rates, medusaPrice, medusaDiscountPercent, extRequested, storeRead>>

\* the outer catch: ctx.throw(500, error.message)
Fail ==
    /\ pc = "thrown"
    /\ response' = [NoResponse EXCEPT !.status = 500, !.message = thrown]
    /\ pc' = "responded"
    /\ UNCHANGED <<bandVars, classVars, priceVars, p1Vars, rerunVars, tableVars, boxVars, inputVars, originPostalCode, rateOrigin,
                   attempts, inFlight, rates, medusaPrice, medusaDiscountPercent, extRequested, storeRead>>

-----------------------------------------------------------------------------
(* Resting values of the variables an operation does not use *)

BandIdle == distanceKm = 0 /\ distanceRange = NoLabel /\ distanceRangeP1 = NoLabel
ClassIdle == density = Rat(0, 1) /\ freightClass = NoClass
PriceIdle == weightLb = 0 /\ matched = << >> /\ priceResult = NoPrice
P1Idle == originP1 = [error |-> "", postalCode |-> ""]

NoRun == [done |-> FALSE, quote |-> NoQuote, thrown |-> ""]
RerunIdle == firstRun = NoRun
TableIdle ==
    /\ calculations = freightCalculations
    /\ allPricings = << >>
    /\ settings = Settings(FALSE, FALSE, 0)
BoxIdle ==
    /\ boxes = << >>
    /\ boxIndex = 0
    /\ boxResults = << >>
    /\ subtotal = 0
    /\ quote = NoQuote
    /\ thrown = ""
    /\ svcOrigin = ""
CtlIdle ==
    /\ cart = NoCart
    /\ apiKey = FALSE
    /\ warehouses = << >>
    /\ routes = NoRoutes
    /\ medusaSettings = Settings(FALSE, FALSE, 0)
    /\ originPostalCode = ""
    /\ rateOrigin = ""
    /\ attempts = 0
    /\ inFlight = 0
    /\ rates = NoRates
    /\ medusaPrice = Null
    /\ medusaDiscountPercent = 0
    /\ extRequested = FALSE
    /\ storeRead = FALSE
    /\ response = NoResponse

-----------------------------------------------------------------------------
(* mapDistanceToRange applied to every distance of the bounded set *)

\* every half kilometer up to the bound, and the last meter below each whole kilometer
DistanceInputs ==
    {k * 500 : k \in 0..(2 * MaxDistanceKm)} \cup {k * 1000 - 1 : k \in 1..MaxDistanceKm}

InitBand ==
    /\ pc = "band"
    /\ distanceKm \in DistanceInputs
    /\ distanceRange = NoLabel
    /\ distanceRangeP1 = NoLabel
    /\ ClassIdle /\ PriceIdle /\ P1Idle /\ RerunIdle /\ TableIdle /\ BoxIdle /\ CtlIdle

BandDistance ==
    /\ pc = "band"
    /\ distanceRange' = mapDistanceToRange(distanceKm)
    /\ distanceRangeP1' = mapDistanceToRangeP1(distanceKm)
    /\ pc' = "banded"
    /\ UNCHANGED <<distanceKm, classVars, priceVars, p1Vars, rerunVars, tableVars, boxVars, inputVars, ctlVars>>

NextBand == BandDistance

SpecBand == InitBand /\ [][NextBand]_vars

-----------------------------------------------------------------------------
(* findFreightClassByDensity applied to every density of the bounded set *)

Reverse(s) == [i \in 1..Len(s) |-> s[Len(s) + 1 - i]]

\* densities in steps of 0.1 PCF
DensityInputs == {Rat(n, 10) : n \in 0..(MaxDensity * 10)}

InitClass ==
    /\ pc = "classify"
    /\ density \in DensityInputs
    /\ freightClass = NoClass
    /\ calculations \in {freightCalculations, Reverse(freightCalculations)}
    /\ allPricings = << >>
    /\ settings = Settings(FALSE, FALSE, 0)
    /\ BandIdle /\ PriceIdle /\ P1Idle /\ RerunIdle /\ BoxIdle /\ CtlIdle

ClassifyDensity ==
    /\ pc = "classify"
    /\ freightClass' = findFreightClassByDensity(density, calculations)
    /\ pc' = "classified"
    /\ UNCHANGED <<density, bandVars, priceVars, p1Vars, rerunVars, tableVars, boxVars, inputVars, ctlVars>>

NextClass == ClassifyDensity

SpecClass == InitClass /\ [][NextClass]_vars

-----------------------------------------------------------------------------
(* Claims on the distance bander and the classifier *)

\* the 100 km bucket [100k, 100(k+1)) that holds the distance, or the open top band
ExpectedBand(meters) ==
    IF meters >= 1000 * 1000 THEN OpenLabel
    ELSE LET k == meters \div (100 * 1000)
         IN  RangeLabel(100 * k, 100 * k + 99)

\* C9: for every distance d >= 0 both implementations of mapDistanceToRange return
\* the label of the half-open 100 km bucket that contains d, and '1000+km' from
\* 1000 km on.
C9_BothBandersHalfOpen ==
    pc = "banded" =>
        /\ distanceRange = ExpectedBand(distanceKm)
        /\ distanceRangeP1 = ExpectedBand(distanceKm)

\* the interval a label denotes
IntervalContains(range, d) ==
    CASE range.form = "Less than" -> RatBelow(d, range.max)
      [] range.form = "but less than" -> RatAtLeast(d, range.min) /\ RatBelow(d, range.max)
      [] range.form = "or greater" -> RatAtLeast(d, range.min)

\* C10: with the seeded 13-row table, every density d >= 0 gets the class of the
\* unique row whose interval contains d, and no larger density gets a higher class
\* (400 below 1 PCF, 50 from 50 PCF on).
C10_SeededClassUniqueAndMonotone ==
    pc = "classified" =>
        LET holders == {i \in 1..Len(freightCalculations) :
                           IntervalContains(freightCalculations[i].densityRange, density)}
        IN  /\ Cardinality(holders) = 1
            /\ \A i \in holders : freightClass = freightCalculations[i].assignedFreightClass
            /\ freightClass # NoClass
            /\ RatBelow(density, 10) => freightClass = 4000
            /\ RatAtLeast(density, 500) => freightClass = 500
            /\ \A n \in density.num..(MaxDensity * 10) :
                   findFreightClassByDensity(Rat(n, 10), calculations) <= freightClass

\* a density on an inner boundary (22.5 PCF) was classified, from a table the store
\* returned in descending order
C10_Witness ==
    /\ pc = "classified"
    /\ density = Rat(225, 10)
    /\ calculations = Reverse(freightCalculations)
    /\ freightClass = 650

-----------------------------------------------------------------------------
(* calculateShippingForBoxes on bounded inputs *)

Band200 == <<"2", "0", "0", "-", "2", "9", "9", "k", "m">>

\* boxes in inches and pounds: three that price, and the malformed ones
BoxInputs ==
    { Box(120, 80, 60, 500, {}),        \* 333.33 cubic feet, 1.5 PCF
      Box(12, 12, 12, 10, {}),          \* 1 cubic foot, 10 PCF
      Box(24, 24, 24, 750, {}),         \* 8 cubic feet, 93.75 PCF
      Box(12, 12, 12, 0, {}),           \* zero weight
      Box(12, 12, 0, 10, {"height"}),   \* no height
      Box(12, 12, 12, 0 - 5, {}),       \* negative weight
      Box(0 - 12, 12, 12, 10, {}) }     \* negative length

BoxSeqs(n) == UNION {[1..k -> BoxInputs] : k \in 0..n}

\* a ladder for class 300, catch-alls for 93 and 400, one breakpoint for 50
SeedPricings ==
    << PricingRow(300, Band200, TRUE, 0, 2500),
       PricingRow(300, Band200, TRUE, 500, 2000),
       PricingRow(300, Band200, TRUE, 1000, 1500),
       PricingRow(93, Band200, FALSE, 0, 1000),
       PricingRow(400, Band200, FALSE, 0, 3000),
       PricingRow(50, Band200, TRUE, 0, 800) >>

\* one class only, stored under a bare legacy distance
LegacyPricings == << PricingRow(100, <<"0">>, TRUE, 0, 1200) >>

\* a density table with gaps (below 1, from 2 to 4, from 6 to 50 PCF), returned by
\* the store with its last row first
GappedCalculations ==
    << [sub |-> 3, densityRange |-> OrGreater(500),      assignedFreightClass |-> 500],
       [sub |-> 1, densityRange |-> ButLessThan(10, 20), assignedFreightClass |-> 3000],
       [sub |-> 2, densityRange |-> ButLessThan(40, 60), assignedFreightClass |-> 1750] >>

\* tables whose only row is class 300 in the band 200-299 km, at 25.00 or 19.99 a
\* hundredweight, without a breakpoint or with one above the weights priced
SingleRowPricings ==
    { <<PricingRow(300, Band200, hasBp, IF hasBp THEN 1000 ELSE 0, x)>> :
        hasBp \in BOOLEAN, x \in {2500, 1999} }

\* classes 350 and 250 only, the higher stored first: class 300 lies between them
TiedPricings ==
    << PricingRow(350, Band200, FALSE, 0, 3500),
       PricingRow(250, Band200, FALSE, 0, 2700) >>

PricingInputs == {<< >>, SeedPricings, LegacyPricings, TiedPricings} \cup SingleRowPricings

SettingsInputs ==
    { Settings(FALSE, FALSE, 0), Settings(TRUE, FALSE, 10), Settings(TRUE, TRUE, 0),
      Settings(TRUE, TRUE, 10), Settings(TRUE, TRUE, 100), Settings(TRUE, TRUE, 150),
      Settings(TRUE, TRUE, 0 - 10) }

InitBoxes ==
    /\ pc = "boxes"
    /\ boxes \in BoxSeqs(MaxBoxes)
    /\ distanceKm \in {250 * 1000, 1500 * 1000}
    /\ distanceRange = mapDistanceToRange(distanceKm)
    /\ distanceRangeP1 = NoLabel
    /\ calculations \in {freightCalculations, GappedCalculations, << >>}
    /\ allPricings \in PricingInputs
    /\ settings \in SettingsInputs
    /\ boxIndex = 0
    /\ boxResults = << >>
    /\ subtotal = 0
    /\ quote = NoQuote
    /\ thrown = ""
    /\ svcOrigin = "H1A 0A1"
    /\ ClassIdle /\ PriceIdle /\ P1Idle /\ RerunIdle /\ CtlIdle

NextBoxes == ProcessBox \/ ReturnQuote

SpecBoxes == InitBoxes /\ [][NextBoxes]_vars

-----------------------------------------------------------------------------
(* Claims on calculateShippingForBoxes *)

OutcomeOf(i) == BoxOutcome(boxes[i], distanceKm, distanceRange, calculations, allPricings)

RECURSIVE SumUnrounded(_)
SumUnrounded(results) ==
    IF results = << >> THEN 0
    ELSE results[Len(results)].unrounded + SumUnrounded(SubSeq(results, 1, Len(results) - 1))

\* C3: calculateShippingForBoxes is all-or-nothing: a quote is returned only when
\* every box produced a BoxQuote, it then holds one BoxQuote per box in input order,
\* and when any box fails the call throws and returns no quote at all.
C3_AllOrNothing ==
    LET failing == {i \in 1..Len(boxes) : OutcomeOf(i).error # ""}
    IN  /\ pc = "returned" =>
              /\ failing = {}
              /\ quote.returned
              /\ Len(quote.boxes) = Len(boxes)
              /\ \A i \in 1..Len(boxes) : quote.boxes[i] = OutcomeOf(i).result
              /\ quote.subtotal = RoundDiv(SumUnrounded(quote.boxes), 10)
        /\ pc = "thrown" => (quote = NoQuote /\ thrown # "" /\ failing # {})
        /\ failing # {} => (pc # "returned" /\ quote = NoQuote)
        /\ (failing # {} /\ boxIndex = Len(boxes)) => pc = "thrown"

\* the second of two boxes failed after the first had produced its BoxQuote
C3_Witness ==
    /\ pc = "thrown"
    /\ Len(boxes) = 2
    /\ Len(boxResults) = 1
    /\ OutcomeOf(1).error = ""
    /\ OutcomeOf(2).error # ""
    /\ quote = NoQuote

BoxesFinished == pc \in {"returned", "thrown"}

\* a valid box: all four fields present and strictly positive
AllBoxesValid ==
    \A i \in 1..Len(boxes) : \A f \in BoxFields : f \notin boxes[i].absent /\ boxes[i][f] > 0

\* C4 as stated: with an empty price table, every non-empty list of valid boxes
\* fails with the no-reference-data error.
C4_EmptyTableAlwaysNoPricingData ==
    (BoxesFinished /\ allPricings = << >> /\ Len(boxes) > 0 /\ AllBoxesValid) =>
        (pc = "thrown" /\ thrown = ErrNoPricingData /\ quote = NoQuote)

AllBoxesClassified ==
    \A i \in 1..Len(boxes) :
        findFreightClassByDensity(
            calculateDensity(boxes[i].length, boxes[i].width, boxes[i].height, boxes[i].weight),
            calculations) # NoClass

\* C4 amended: with an empty price table, every non-empty list of valid boxes that
\* the density table classifies fails with the no-reference-data error, and no quote
\* is returned.
C4_EmptyTableNoPricingDataWhenClassified ==
    (BoxesFinished /\ allPricings = << >> /\ Len(boxes) > 0 /\ AllBoxesValid
        /\ AllBoxesClassified) =>
        (pc = "thrown" /\ thrown = ErrNoPricingData /\ quote = NoQuote)

\* two valid, classified boxes met an empty price table
C4_Witness ==
    /\ pc = "thrown"
    /\ thrown = ErrNoPricingData
    /\ allPricings = << >>
    /\ Len(boxes) = 2
    /\ AllBoxesValid
    /\ AllBoxesClassified

\* C5: enabled with a percentage > 0: total = subtotal * (1 - percentage / 100),
\* never below 0; in every other case total = subtotal.
C5_DiscountClampedAtZero ==
    pc = "returned" =>
        IF settings.exists /\ settings.isDiscountEnabled /\ settings.discountPercentage > 0
        THEN quote.total = Max(0, RoundDiv(subtotal * (100 - settings.discountPercentage), 1000))
        ELSE quote.total = quote.subtotal

\* C8: every BoxQuote comes from a box whose four fields are present and strictly
\* positive (so its line price is positive); any other box is rejected.
C8_OnlyPositiveBoxesPriced ==
    \A i \in 1..Len(boxResults) :
        /\ \A f \in BoxFields : f \notin boxes[i].absent /\ boxes[i][f] > 0
        /\ boxResults[i].price > 0

-----------------------------------------------------------------------------
(* The entrypoint on bounded requests, reference data and collaborator answers *)

Destination == "K1A 0B1"

GoodBox == Box(120, 80, 60, 500, {})
SmallBox == Box(12, 12, 12, 10, {})

\* the boxes / items a request carries
Payloads ==
    { [boxes |-> ListField(TRUE, <<GoodBox>>), items |-> ListField(FALSE, << >>)],
      [boxes |-> ListField(TRUE, <<GoodBox, SmallBox>>), items |-> ListField(FALSE, << >>)],
      [boxes |-> ListField(TRUE, <<Box(12, 12, 12, 0 - 5, {})>>),
       items |-> ListField(FALSE, << >>)],
      [boxes |-> ListField(TRUE, <<GoodBox, Box(12, 12, 0, 10, {"height"})>>),
       items |-> ListField(FALSE, << >>)],
      [boxes |-> ListField(FALSE, << >>), items |-> ListField(TRUE, <<Item(2, SmallBox)>>)],
      [boxes |-> ListField(FALSE, << >>),
       items |-> ListField(TRUE, <<Item(1, Box(12, 12, 12, 0, {"weight"}))>>)],
      [boxes |-> ListField(FALSE, << >>),
       items |-> ListField(TRUE, <<Item(0 - 1, SmallBox)>>)],
      [boxes |-> ListField(FALSE, << >>), items |-> ListField(TRUE, << >>)] }

AddressInputs == {Address(FALSE, ""), Address(TRUE, ""), Address(TRUE, Destination)}

\* warehouse_id and sales_channel_id of the request
SelectorInputs ==
    { <<0, "">>, <<1, "">>, <<9, "sc_01H54KV0V84HGG6PZD06T3J8C4">>,
      <<0, "sc_01GY1TR8XSSA865FXVJDQR9XCZ">>, <<0, "sc_local">> }

CartInputs ==
    {NoCart} \cup
    { Cart(p.boxes, p.items, a, sel[1], sel[2]) :
        p \in Payloads, a \in AddressInputs, sel \in SelectorInputs }

Montreal == Warehouse(1, "Montreal", "H1A 0A1", "sc_local")
Toronto == Warehouse(2, "Toronto", "M5V 2T6", "")

WarehouseInputs == {<< >>, <<Montreal, Toronto>>}

\* every origin 250 km away but Toronto, which is 50 km away or cannot be routed
RouteInputs ==
    { [p \in PostalCodes |->
          IF p = "" THEN Route(FALSE, 0)
          ELSE IF p = "M5V 2T6" THEN Route(torontoOk, 50 * 1000)
          ELSE Route(TRUE, 250 * 1000)] : torontoOk \in BOOLEAN }

Init ==
    /\ pc = "validate"
    /\ cart \in CartInputs
    /\ apiKey \in BOOLEAN
    /\ warehouses \in WarehouseInputs
    /\ routes \in RouteInputs
    /\ calculations = freightCalculations
    /\ allPricings \in {<< >>, SeedPricings}
    /\ settings \in {Settings(FALSE, FALSE, 0), Settings(TRUE, TRUE, 10)}
    /\ medusaSettings \in {Settings(FALSE, FALSE, 0), Settings(TRUE, TRUE, 10)}
    /\ originPostalCode = ""
    /\ rateOrigin = ""
    /\ attempts = 0
    /\ inFlight = 0
    /\ rates = NoRates
    /\ medusaPrice = Null
    /\ medusaDiscountPercent = 0
    /\ extRequested = FALSE
    /\ storeRead = FALSE
    /\ response = NoResponse
    /\ BandIdle /\ ClassIdle /\ PriceIdle /\ P1Idle /\ RerunIdle /\ BoxIdle

Next ==
    \/ Validate
    \/ ResolveOrigin
    \/ GetServices
    \/ PostRate
    \/ PollTick
    \/ PollResponse
    \/ LateResponse
    \/ TakeRate
    \/ LocalStart
    \/ ProcessBox
    \/ ReturnQuote
    \/ Respond
    \/ Fail

Spec == Init /\ [][Next]_vars

-----------------------------------------------------------------------------
(* Claims on the entrypoint *)

\* the polling promise resolved to a list whose first rate carries a numeric total
RateObtained == rates # << >> /\ rates[1].shape = "number"

Answered(status) == pc = "responded" /\ response.status = status

\* C1: when the external attempt fails for any reason (no key, no services, poll
\* error, polling ceiling, empty or malformed rate) the answer is exactly the local
\* quote tagged STRAPI_TABLE, and MEDUSA_API is emitted only for an obtained rate.
C1_ExternalFailureFallsBackToLocal ==
    Answered(200) =>
        /\ ~RateObtained =>
              /\ response.source = "STRAPI_TABLE"
              /\ response.hasBoxes
              /\ response.boxes = quote.boxes
              /\ response.subtotal = quote.subtotal
              /\ response.discountPercent = quote.discountPercent
              /\ response.total = quote.total
              /\ ~response.isNaN
        /\ response.source = "MEDUSA_API" => RateObtained

\* C2: a request whose external rate succeeded is answered with the external price
\* whatever the local computation does; a local failure cannot make it an error.
C2_ExternalSuccessNeedsNoLocalResult ==
    (pc = "responded" /\ RateObtained) =>
        (response.status = 200 /\ response.source = "MEDUSA_API")

\* the boxes the request asks to ship: cart.boxes, or quantity copies of each item
RECURSIVE ItemUnits(_)
ItemUnits(items) ==
    IF items = << >> THEN << >>
    ELSE Copies(items[1].product, items[1].quantity) \o ItemUnits(SubSeq(items, 2, Len(items)))

InputBoxes ==
    IF cart.boxes.given /\ cart.boxes.list # << >> THEN cart.boxes.list
    ELSE ItemUnits(cart.items.list)

\* C6: every successful response carries one BoxQuote per input box, in input order,
\* whichever provenance priced it.
C6_OneBoxQuotePerInputBox ==
    Answered(200) =>
        /\ response.hasBoxes
        /\ Len(response.boxes) = Len(InputBoxes)
        /\ \A i \in 1..Len(response.boxes) :
               /\ response.boxes[i].weightLbs = InputBoxes[i].weight
               /\ response.boxes[i].lengthIn = InputBoxes[i].length
               /\ response.boxes[i].widthIn = InputBoxes[i].width
               /\ response.boxes[i].heightIn = InputBoxes[i].height

\* a request with a missing or malformed field
Malformed ==
    \/ ~cart.exists
    \/ /\ (~cart.items.given \/ cart.items.list = << >>)
       /\ (~cart.boxes.given \/ cart.boxes.list = << >>)
    \/ \E i \in 1..Len(cart.boxes.list) : \E f \in BoxFields : f \in cart.boxes.list[i].absent
    \/ \E i \in 1..Len(cart.items.list) :
           \E f \in BoxFields : f \in cart.items.list[i].product.absent
    \/ ~cart.shipping_address.given
    \/ cart.shipping_address.postal_code = ""

\* C7: a malformed request is answered 400, never 500, before any external rate
\* request or reference-table read.
C7_MalformedRequestIs400 ==
    (pc = "responded" /\ Malformed) =>
        (response.status = 400 /\ ~extRequested /\ ~storeRead)

-----------------------------------------------------------------------------
(* findPriceAndRateByClassAndDistance on bounded classes, bands, weights, tables *)

\* the label of the band that holds a whole number of kilometers
BandOf(km) == mapDistanceToRange(km * 1000)

\* class 300 under the requested band, under another band, and under the bare
\* lower bound of the requested band
MixedDistancePricings ==
    << PricingRow(300, BandOf(350), TRUE, 0, 9000),
       PricingRow(300, Band200, TRUE, 0, 2500),
       PricingRow(300, <<"2", "0", "0">>, TRUE, 500, 7000),
       PricingRow(93, <<"2", "0", "0">>, TRUE, 0, 6000),
       PricingRow(93, BandOf(350), TRUE, 0, 8000) >>

\* class 300 stored under the open top band and under another band only
OpenBandPricings ==
    << PricingRow(300, OpenLabel, TRUE, 0, 4000),
       PricingRow(300, BandOf(350), TRUE, 0, 5000) >>

\* breakpoints 500 and 1000 beside a catch-all row
HighBreakpointPricings ==
    << PricingRow(300, Band200, FALSE, 0, 9900),
       PricingRow(300, Band200, TRUE, 1000, 1500),
       PricingRow(300, Band200, TRUE, 500, 2000) >>

\* rows without a breakpoint only
CatchAllPricings ==
    << PricingRow(300, Band200, FALSE, 0, 1000),
       PricingRow(300, Band200, FALSE, 0, 1100),
       PricingRow(50, BandOf(150), FALSE, 0, 700) >>

PriceTableInputs ==
    { << >>, SeedPricings, MixedDistancePricings, OpenBandPricings, HighBreakpointPricings,
      CatchAllPricings }

ClassInputs == {3000, 925, 500}
BandInputs == {BandOf(50), BandOf(150), Band200, OpenLabel}
WeightInputs == {0 - 5, 100, 500, 750, 1000, 10000}

InitPrice ==
    /\ pc = "price"
    /\ freightClass \in ClassInputs
    /\ distanceRange \in BandInputs
    /\ weightLb \in WeightInputs
    /\ allPricings \in PriceTableInputs
    /\ matched = << >>
    /\ priceResult = NoPrice
    /\ density = Rat(0, 1)
    /\ distanceKm = 0
    /\ distanceRangeP1 = NoLabel
    /\ calculations = freightCalculations
    /\ settings = Settings(FALSE, FALSE, 0)
    /\ P1Idle /\ RerunIdle /\ BoxIdle /\ CtlIdle

ResolvePrice ==
    /\ pc = "price"
    /\ matched' = findPricingEntries(freightClass, distanceRange, allPricings)
    /\ priceResult' =
           findPriceAndRateByClassAndDistance(freightClass, distanceRange, weightLb, allPricings)
    /\ pc' = "priced"
    /\ UNCHANGED <<bandVars, classVars, weightLb, p1Vars, rerunVars, tableVars, boxVars, inputVars, ctlVars>>

NextPrice == ResolvePrice

SpecPrice == InitPrice /\ [][NextPrice]_vars

-----------------------------------------------------------------------------
(* Claims on the price resolver *)

\* positions of the table's rows of the looked-up class
ClassRows == {i \in 1..Len(allPricings) : allPricings[i].freightClass = MathRound(freightClass)}

\* tier 1: the distance equals the requested band
ExactRows == {i \in ClassRows : allPricings[i].distance = distanceRange}

\* tier 2: the band, or a distance that starts with the band's lower bound
RelaxedRows ==
    IF ~Includes(distanceRange, "-") THEN {}
    ELSE {i \in ClassRows :
             \/ allPricings[i].distance = distanceRange
             \/ StartsWith(allPricings[i].distance, RangeStart(distanceRange))}

\* the rows at the given positions, in table order
RowsAt(positions) ==
    [k \in 1..Cardinality(positions) |->
        allPricings[CHOOSE i \in positions : Cardinality({j \in positions : j <= i}) = k]]

\* C11: when the table holds a row of round(class) whose distance equals the band,
\* the rate is selected only among those rows; rows matched by prefix are used only
\* when there is no exact row, and class-only rows only when there is neither.
C11_TierDominance ==
    pc = "priced" =>
        /\ ExactRows # {} =>
              /\ matched = RowsAt(ExactRows)
              /\ priceResult.found
              /\ \E i \in ExactRows : priceResult.ratePerCwt = allPricings[i].price
        /\ (ExactRows = {} /\ RelaxedRows # {}) => matched = RowsAt(RelaxedRows)
        /\ (ExactRows = {} /\ RelaxedRows = {}) => matched = RowsAt(ClassRows)

\* an exact row was chosen although a row of the same class, stored under the bare
\* lower bound, has the breakpoint the weight would select
C11_Witness ==
    /\ pc = "priced"
    /\ allPricings = MixedDistancePricings
    /\ freightClass = 3000
    /\ distanceRange = Band200
    /\ weightLb = 750
    /\ Len(matched) = 1
    /\ priceResult.ratePerCwt = 2500

\* breakpoints of the matched rows that the weight reaches
ReachedBreakpoints ==
    {matched[i].breakpointValue : i \in {j \in 1..Len(matched) :
        matched[j].hasBreakpoint /\ matched[j].breakpointValue <= weightLb}}

\* C12: when some matched row has a breakpoint <= weight, the selected row has the
\* greatest breakpoint not exceeding the weight (a weight equal to a breakpoint
\* selects it; a weight above every breakpoint selects the highest); breakpoints
\* [0, 500, 1000] give 500 for 750, 1000 for 1000 and 1000 for 10000.
C12_GreatestBreakpointNotAboveWeight ==
    pc = "priced" =>
        /\ ReachedBreakpoints # {} =>
              LET best == CHOOSE b \in ReachedBreakpoints : \A o \in ReachedBreakpoints : o <= b
              IN  /\ priceResult.found
                  /\ \E i \in 1..Len(matched) :
                         /\ matched[i].hasBreakpoint
                         /\ matched[i].breakpointValue = best
                         /\ priceResult.ratePerCwt = matched[i].price
                         /\ priceResult.price = matched[i].price * weightLb
        /\ (allPricings = SeedPricings /\ freightClass = 3000 /\ distanceRange = Band200
                /\ weightLb >= 0) =>
              priceResult.ratePerCwt =
                  CASE weightLb \in {500, 750} -> 2000
                    [] weightLb \in {1000, 10000} -> 1500
                    [] OTHER -> 2500

\* weight 750 on the ladder [0, 500, 1000] took the 500 row
C12_Witness ==
    /\ pc = "priced"
    /\ allPricings = SeedPricings
    /\ freightClass = 3000
    /\ distanceRange = Band200
    /\ weightLb = 750
    /\ Len(matched) = 3
    /\ priceResult.ratePerCwt = 2000

-----------------------------------------------------------------------------
(* getOriginPostalCode on bounded selectors, registries and distance answers *)

\* a warehouse whose postalCode is missing, assigned to the local sales channel
Depot == Warehouse(3, "Depot", "", "sc_local")

RegistryInputs ==
    { << >>, <<Toronto>>, <<Depot>>, <<Montreal, Toronto>>, <<Toronto, Montreal>>,
      <<Depot, Toronto, Montreal>> }

\* Montreal at 50 km, at 250 km or not routable; Toronto at 30 km, at 250 km or not
OriginRouteInputs ==
    { [p \in PostalCodes |->
          IF p = "H1A 0A1" THEN m ELSE IF p = "M5V 2T6" THEN t ELSE Route(FALSE, 0)] :
        m \in {Route(TRUE, 50 * 1000), Route(TRUE, 250 * 1000), Route(FALSE, 0)},
        t \in {Route(TRUE, 30 * 1000), Route(TRUE, 250 * 1000), Route(FALSE, 0)} }

\* warehouse id (0 absent, 9 unknown), sales channel ("" absent), destination
OriginCartInputs ==
    { Cart(ListField(FALSE, << >>), ListField(FALSE, << >>), Address(TRUE, dest), id, channel) :
        id \in {0, 1, 3, 9}, channel \in {"", "sc_local", "sc_other"},
        dest \in {"", Destination} }

InitOrigin ==
    /\ pc = "resolve"
    /\ cart \in OriginCartInputs
    /\ warehouses \in RegistryInputs
    /\ routes \in OriginRouteInputs
    /\ apiKey = FALSE
    /\ medusaSettings = Settings(FALSE, FALSE, 0)
    /\ originPostalCode = ""
    /\ rateOrigin = ""
    /\ attempts = 0
    /\ inFlight = 0
    /\ rates = NoRates
    /\ medusaPrice = Null
    /\ medusaDiscountPercent = 0
    /\ extRequested = FALSE
    /\ storeRead = FALSE
    /\ response = NoResponse
    /\ BandIdle /\ ClassIdle /\ PriceIdle /\ P1Idle /\ RerunIdle /\ TableIdle /\ BoxIdle

\* one call of getOriginPostalCode(salesChannelId, destinationPostalCode, warehouseId)
\* in each implementation
GetOrigin ==
    /\ pc = "resolve"
    /\ \E origin \in {getOriginPostalCode(cart.sales_channel_id,
                                          cart.shipping_address.postal_code,
                                          cart.warehouse_id, warehouses, routes)} :
           /\ svcOrigin' = origin.postalCode
           /\ thrown' = origin.error
    /\ originP1' = getOriginPostalCodeP1(cart.sales_channel_id,
                                         cart.shipping_address.postal_code,
                                         cart.warehouse_id, warehouses, routes)
    /\ pc' = "resolved"
    /\ UNCHANGED <<bandVars, classVars, priceVars, rerunVars, tableVars, boxes, boxIndex, boxResults,
                   subtotal, quote, inputVars, ctlVars>>

NextOrigin == GetOrigin

SpecOrigin == InitOrigin /\ [][NextOrigin]_vars

-----------------------------------------------------------------------------
(* Claims on the origin resolver *)

\* positions of the warehouses a selector designates
IdMatches ==
    {i \in 1..Len(warehouses) :
        cart.warehouse_id # 0 /\ warehouses[i].documentId = cart.warehouse_id}
ChannelMatches ==
    {i \in 1..Len(warehouses) :
        cart.sales_channel_id # "" /\ warehouses[i].salesChannelId = cart.sales_channel_id}

\* warehouses with a postal code whose distance lookup succeeds
Measurable ==
    {i \in 1..Len(warehouses) :
        warehouses[i].postalCode # "" /\ routes[warehouses[i].postalCode].ok}

MetersFrom(i) == routes[warehouses[i].postalCode].meters

First(positions) == CHOOSE i \in positions : \A j \in positions : i <= j

\* the postal code of one of the nearest measurable warehouses, or of any warehouse
\* when none is measurable or the registry holds a single warehouse
IsNearestPostalCode(postal) ==
    IF Len(warehouses) > 1 /\ Measurable # {}
    THEN \E i \in Measurable :
             /\ postal = warehouses[i].postalCode
             /\ \A j \in Measurable : MetersFrom(i) <= MetersFrom(j)
    ELSE \E i \in 1..Len(warehouses) : postal = warehouses[i].postalCode

\* the priority chain applied to what one implementation returned or threw
FollowsPriorityChain(origin) ==
    IF \E i \in IdMatches : warehouses[i].postalCode # ""
    THEN origin.error = "" /\ origin.postalCode = warehouses[First(IdMatches)].postalCode
    ELSE IF ChannelMatches # {}
    THEN origin.error = "" /\ origin.postalCode = warehouses[First(ChannelMatches)].postalCode
    ELSE IF cart.shipping_address.postal_code # "" /\ warehouses # << >>
    THEN origin.error = "" /\ IsNearestPostalCode(origin.postalCode)
    ELSE IF warehouses # << >>
    THEN origin.error = "" /\ origin.postalCode = warehouses[1].postalCode
    ELSE origin.error = ErrNoWarehouse

\* C13: getOriginPostalCode follows the chain warehouse id with a postal code, first
\* warehouse of the sales channel, nearest warehouse when the destination is known,
\* first warehouse, no-warehouse error; a later step is used only when every
\* earlier one yields nothing.  Stated for both implementations.
C13_OriginPriorityChain ==
    pc = "resolved" =>
        /\ FollowsPriorityChain([error |-> thrown, postalCode |-> svcOrigin])
        /\ FollowsPriorityChain(originP1)

\* the nearest-warehouse step is the one that decides: no selector designates a
\* warehouse, the destination is known and several warehouses are registered
NearestStepDecides ==
    /\ pc = "resolved"
    /\ IdMatches = {}
    /\ ChannelMatches = {}
    /\ cart.shipping_address.postal_code # ""
    /\ Len(warehouses) > 1

\* the first, in list order, of the measurable warehouses at minimum distance
NearestMeasurable ==
    First({i \in Measurable : \A j \in Measurable : MetersFrom(i) <= MetersFrom(j)})

\* C14: among the warehouses with a postal code whose lookup succeeds, the one at
\* minimum distance is chosen, the first in list order on an exact tie; a warehouse
\* whose lookup throws is skipped and never chosen while another lookup succeeded.
C14_NearestWarehouseFirstOnTie ==
    (NearestStepDecides /\ Measurable # {}) =>
        /\ thrown = ""
        /\ svcOrigin = warehouses[NearestMeasurable].postalCode
        /\ originP1 = [error |-> "", postalCode |-> warehouses[NearestMeasurable].postalCode]
        /\ routes[svcOrigin].ok

\* two warehouses at 50 km and 30 km: the second, at 30 km, was chosen
C14_Witness ==
    /\ NearestStepDecides
    /\ warehouses = <<Montreal, Toronto>>
    /\ routes["H1A 0A1"] = Route(TRUE, 50 * 1000)
    /\ routes["M5V 2T6"] = Route(TRUE, 30 * 1000)
    /\ svcOrigin = "M5V 2T6"
    /\ originP1.postalCode = "M5V 2T6"

\* ---------------------------------------------------------------------------
\* Claims on the external-rate polling loop
\* ---------------------------------------------------------------------------

\* C15: external-rate polling is bounded by a ceiling of 30 attempts: while the
\* polling promise is unresolved no more than maxAttempts polls have been made,
\* and a promise still unresolved after the 30th attempt resolves to the empty
\* rate list.
C15_PollingCeiling ==
    /\ pc = "poll" => attempts <= maxAttempts
    /\ (pc = "rates" /\ attempts > maxAttempts) => rates = << >>

-----------------------------------------------------------------------------
(* The worked scenario of calculateShippingForBoxes *)

ScenarioBox == Box(120, 80, 60, 500, {})

\* the scenario's inputs, its one box processed
ScenarioRun ==
    /\ boxes = <<ScenarioBox>>
    /\ boxIndex = 1
    /\ distanceKm = 250 * 1000
    /\ calculations = freightCalculations
    /\ allPricings \in SingleRowPricings

\* C17: one box of 120 x 80 x 60 in weighing 500 lb at 250 km, with the seeded
\* density table and a price table whose only row is (class 300, '200-299km',
\* rate X), is quoted with 333.33... cubic feet (1000/3), density 1.5 PCF, class
\* 300, in the band '200-299km', and line price X x 5.
C17_EndToEndScenario ==
    ScenarioRun =>
        LET X == allPricings[1].price
        IN  /\ thrown = ""
            /\ distanceRange = Band200
            /\ Len(boxResults) = 1
            /\ boxResults[1].cubicFeet.num * 3 = 1000 * boxResults[1].cubicFeet.den
            /\ boxResults[1].densityPcf.num * 2 = 3 * boxResults[1].densityPcf.den
            /\ boxResults[1].freightClass = 3000
            /\ boxResults[1].price = X * 5
            /\ boxResults[1].unrounded = X * 5 * 100
            /\ subtotal = X * 5 * 100

\* the scenario was quoted at 19.99 a hundredweight: 99.95
C17_Witness ==
    /\ ScenarioRun
    /\ allPricings[1].price = 1999
    /\ boxResults # << >>
    /\ boxResults[1].price = 9995

-----------------------------------------------------------------------------
(* Claims on the classifier's fallback *)

\* the box the loop handled last, well-formed, and its density
LastBox == boxes[boxIndex]
LastBoxClassified == boxIndex >= 1 /\ ~BoxIsMissingFields(LastBox)
LastDensity == calculateDensity(LastBox.length, LastBox.width, LastBox.height, LastBox.weight)

\* rows of the density table whose label holds of d, and the rows by their sub
LabelHolds(i, d) == RowMatches(calculations[i], d)
LowestSub(rows) == CHOOSE i \in rows : \A j \in rows : calculations[i].sub <= calculations[j].sub
HighestSub(rows) == CHOOSE i \in rows : \A j \in rows : calculations[i].sub >= calculations[j].sub

-----------------------------------------------------------------------------
(* Claims on the nearest-class fallback *)

\* the class computed for the last box, and its first price lookup
LastClass == findFreightClassByDensity(LastDensity, calculations)
LastFirstLookup ==
    findPriceAndRateByClassAndDistance(LastClass, distanceRange, LastBox.weight, allPricings)
NearestFallbackTaken ==
    /\ LastBoxClassified
    /\ LastClass # NoClass
    /\ ~LastFirstLookup.found
    /\ allPricings # << >>

\* C20: when the computed class has no price and the price table is not empty, the
\* lookup is retried with the class c*, among the distinct classes of the price
\* table, at the least absolute difference from the computed class, the lowest
\* such class on an exact tie; the box is quoted under c*, at the retry's rate.
C20_NearestClassLowestOnTie ==
    NearestFallbackTaken =>
        \E c \in {p.freightClass : p \in {allPricings[i] : i \in 1..Len(allPricings)}} :
            /\ \A i \in 1..Len(allPricings) :
                   LET o == allPricings[i].freightClass
                   IN  /\ Abs(c * 10 - LastClass) <= Abs(o * 10 - LastClass)
                       /\ Abs(c * 10 - LastClass) = Abs(o * 10 - LastClass) => c <= o
            /\ LET retry == findPriceAndRateByClassAndDistance(c * 10, distanceRange,
                                                              LastBox.weight, allPricings)
               IN  IF retry.found
                   THEN /\ thrown = ""
                        /\ boxResults[Len(boxResults)].freightClass = c * 10
                        /\ boxResults[Len(boxResults)].unrounded = retry.price
                   ELSE thrown = ErrNoPricing

\* a class 300 box priced from a table holding 350 and 250 only was quoted under 250
C20_Witness ==
    /\ NearestFallbackTaken
    /\ LastClass = 3000
    /\ allPricings = TiedPricings
    /\ thrown = ""
    /\ boxResults[Len(boxResults)].freightClass = 2500
    /\ boxResults[Len(boxResults)].ratePerCwt = 2700

-----------------------------------------------------------------------------
(* findFreightClassByDensity on a table with other bounds than the seeded ones *)

\* 'Less than 2' / '2 but less than 60' / '60 or greater'
CoarseCalculations ==
    << [sub |-> 1, densityRange |-> LessThan(20),        assignedFreightClass |-> 4000],
       [sub |-> 2, densityRange |-> ButLessThan(20, 600), assignedFreightClass |-> 1000],
       [sub |-> 3, densityRange |-> OrGreater(600),      assignedFreightClass |-> 500] >>

\* a table whose outer rows carry the seeded bounds and an inner row others
SeededEndsCalculations ==
    << [sub |-> 1, densityRange |-> LessThan(10),        assignedFreightClass |-> 4000],
       [sub |-> 2, densityRange |-> ButLessThan(10, 500), assignedFreightClass |-> 1000],
       [sub |-> 3, densityRange |-> OrGreater(500),      assignedFreightClass |-> 500] >>

InitLabels ==
    /\ pc = "classify"
    /\ density \in DensityInputs
    /\ freightClass = NoClass
    /\ calculations \in {CoarseCalculations, Reverse(CoarseCalculations),
                         SeededEndsCalculations}
    /\ allPricings = << >>
    /\ settings = Settings(FALSE, FALSE, 0)
    /\ BandIdle /\ PriceIdle /\ P1Idle /\ RerunIdle /\ BoxIdle /\ CtlIdle

NextLabels == ClassifyDensity

SpecLabels == InitLabels /\ [][NextLabels]_vars

\* C19: for a contiguous table labelled 'Less than X', 'A but less than B' and
\* 'X or greater' with any bounds, a density gets the class of the first row, in
\* order of sub, whose interval (d < X, A <= d < B, d >= X) contains it.
C19_AnyBoundsFirstContainingRow ==
    pc = "classified" =>
        LET holders == {i \in 1..Len(calculations) :
                           IntervalContains(calculations[i].densityRange, density)}
        IN  /\ holders # {}
            /\ freightClass = calculations[LowestSub(holders)].assignedFreightClass

-----------------------------------------------------------------------------
(* The service's calculateShipping called twice on the same inputs *)

\* a second call of calculateShipping(cart): the first outcome is kept aside, the
\* locals of the first call are dead and every table and input is as it was
CallAgain ==
    /\ pc \in {"returned", "thrown"}
    /\ ~firstRun.done
    /\ firstRun' = [done |-> TRUE, quote |-> quote, thrown |-> thrown]
    /\ quote' = NoQuote
    /\ thrown' = ""
    /\ pc' = "local"
    /\ UNCHANGED <<bandVars, classVars, priceVars, p1Vars, tableVars, boxes, boxIndex,
                   boxResults, subtotal, svcOrigin, inputVars, ctlVars>>

InitTwice ==
    /\ pc = "local"
    /\ cart \in CartInputs \ {NoCart}
    /\ apiKey = FALSE
    /\ warehouses \in WarehouseInputs
    /\ routes \in RouteInputs
    /\ calculations = freightCalculations
    /\ allPricings \in {<< >>, SeedPricings}
    /\ settings \in {Settings(FALSE, FALSE, 0), Settings(TRUE, TRUE, 10)}
    /\ medusaSettings = Settings(FALSE, FALSE, 0)
    /\ originPostalCode = ""
    /\ rateOrigin = ""
    /\ attempts = 0
    /\ inFlight = 0
    /\ rates = NoRates
    /\ medusaPrice = Null
    /\ medusaDiscountPercent = 0
    /\ extRequested = FALSE
    /\ storeRead = FALSE
    /\ response = NoResponse
    /\ BandIdle /\ ClassIdle /\ PriceIdle /\ P1Idle /\ RerunIdle /\ BoxIdle

NextTwice ==
    \/ LocalStart
    \/ ProcessBox
    \/ ReturnQuote
    \/ CallAgain

SpecTwice == InitTwice /\ [][NextTwice]_vars

-----------------------------------------------------------------------------
(* Claims on the line prices and the subtotal *)

\* the rate of the row selected for box i, in cents a hundredweight
SelectedRate(i) ==
    LET box == boxes[i]
        dens == calculateDensity(box.length, box.width, box.height, box.weight)
        fc == findFreightClassByDensity(dens, calculations)
    IN  resolvePrice(fc, distanceRange, box.weight, allPricings).priceResult.ratePerCwt

\* rate x weight over the first n boxes, in 1/10000 dollar
RECURSIVE SumRateTimesWeight(_)
SumRateTimesWeight(n) ==
    IF n = 0 THEN 0 ELSE SelectedRate(n) * boxes[n].weight + SumRateTimesWeight(n - 1)

RECURSIVE SumReported(_)
SumReported(results) ==
    IF results = << >> THEN 0
    ELSE results[Len(results)].price + SumReported(SubSeq(results, 1, Len(results) - 1))

\* C21: each BoxQuote's line price is the selected row's rate per hundredweight
\* times the box weight in pounds over 100 (reported to the cent), and the
\* subtotal is the sum of the line prices before that rounding (reported to the
\* tenth of a cent).
C21_SubtotalSumsUnroundedPrices ==
    pc = "returned" =>
        /\ \A i \in 1..Len(quote.boxes) :
               /\ quote.boxes[i].unrounded = SelectedRate(i) * boxes[i].weight
               /\ quote.boxes[i].price = RoundDiv(SelectedRate(i) * boxes[i].weight, 100)
        /\ subtotal = SumRateTimesWeight(Len(boxes))
        /\ quote.subtotal = RoundDiv(SumRateTimesWeight(Len(boxes)), 10)

\* two boxes of 10 lb at 19.99 a hundredweight: each reported 2.00, subtotal 3.998
C21_Witness ==
    /\ pc = "returned"
    /\ Len(quote.boxes) = 2
    /\ quote.boxes[1].price = 200
    /\ quote.boxes[2].price = 200
    /\ quote.subtotal = 3998
    /\ SumReported(quote.boxes) * 10 # quote.subtotal

-----------------------------------------------------------------------------
(* Claims on the catch-all rows and on weights below every breakpoint *)

\* positions of the matched rows that carry a breakpoint, and of those that do not
WithBreakpoint == {i \in 1..Len(matched) : matched[i].hasBreakpoint}
CatchAlls == {i \in 1..Len(matched) : ~matched[i].hasBreakpoint}

\* C22: when no matched row has a breakpoint the catch-all row supplies the rate;
\* when some matched row has a breakpoint no catch-all row is selected; and the
\* resolver returns no price only when the matched row set is empty.
C22_CatchAllOnlyWithoutBreakpoints ==
    pc = "priced" =>
        /\ (matched # << >> /\ WithBreakpoint = {}) =>
               /\ priceResult.found
               /\ priceResult.ratePerCwt = matched[1].price
               /\ priceResult.price = matched[1].price * weightLb
        /\ WithBreakpoint # {} =>
               /\ priceResult.found
               /\ \E i \in WithBreakpoint : priceResult.ratePerCwt = matched[i].price
               /\ \A i \in CatchAlls : priceResult.ratePerCwt # matched[i].price
        /\ priceResult.found <=> matched # << >>

\* class 300 matched two rows without a breakpoint; the first one gave the rate
C22_Witness ==
    /\ pc = "priced"
    /\ allPricings = CatchAllPricings
    /\ Len(matched) = 2
    /\ WithBreakpoint = {}
    /\ priceResult.found
    /\ priceResult.ratePerCwt = 1000

-----------------------------------------------------------------------------
(* Claims on the class a BoxQuote reports *)

\* the last box was quoted; the class of its BoxQuote
LastBoxQuoted == LastBoxClassified /\ thrown = "" /\ boxResults # << >>
ReportedClass == boxResults[Len(boxResults)].freightClass

\* C23: a fractional class is rounded for the table lookup only: when the first
\* attempt, which looks up round(class), finds a price, the BoxQuote reports the
\* class as classified (92.5); the reported class is another, whole class only
\* when a later fallback was the attempt that found the price.
C23_FractionalClassReportedUnrounded ==
    LastBoxQuoted =>
        /\ LastFirstLookup.found => ReportedClass = LastClass
        /\ ReportedClass # LastClass => (~LastFirstLookup.found /\ ReportedClass % 10 = 0)

\* a 10 PCF box, class 92.5, priced from the rows of class 93, is reported 92.5
C23_Witness ==
    /\ LastBoxQuoted
    /\ LastClass = 925
    /\ allPricings = SeedPricings
    /\ LastFirstLookup.found
    /\ LastFirstLookup.ratePerCwt = 1000
    /\ ReportedClass = 925

\* the weight is below the breakpoint of every matched row that has one
BelowEveryBreakpoint ==
    /\ pc = "priced"
    /\ WithBreakpoint # {}
    /\ \A i \in WithBreakpoint : weightLb < matched[i].breakpointValue

\* the matched row of the highest breakpoint, the last such row where several share it
HighestBreakpoint ==
    CHOOSE i \in WithBreakpoint :
        \A j \in WithBreakpoint :
            \/ matched[i].breakpointValue > matched[j].breakpointValue
            \/ (matched[i].breakpointValue = matched[j].breakpointValue /\ i >= j)

\* C24: a weight lower than every breakpoint of the matched rows takes the rate of
\* the row with the highest breakpoint: not the lowest-breakpoint row, and not a
\* catch-all row even if one was matched.
C24_BelowAllBreakpointsTakesHighest ==
    BelowEveryBreakpoint =>
        /\ priceResult.found
        /\ priceResult.ratePerCwt = matched[HighestBreakpoint].price
        /\ priceResult.price = matched[HighestBreakpoint].price * weightLb
        /\ \A i \in 1..Len(matched) :
               i # HighestBreakpoint => priceResult.ratePerCwt # matched[i].price

\* breakpoints 500 and 1000 beside a catch-all row, weight 100: the rate of 1000
C24_Witness ==
    /\ BelowEveryBreakpoint
    /\ allPricings = HighBreakpointPricings
    /\ weightLb = 100
    /\ CatchAlls # {}
    /\ matched[HighestBreakpoint].breakpointValue = 1000
    /\ priceResult.ratePerCwt = 1500

-----------------------------------------------------------------------------
(* Claims on the range-relaxed lookup *)

\* the rate came from the second tier: no exact row, some row matched by the
\* relaxed test
RelaxedTierResolved ==
    /\ pc = "priced"
    /\ ExactRows = {}
    /\ RelaxedRows # {}
    /\ priceResult.found

\* C25: a rate resolved by the range-relaxed lookup for a ranged band comes only
\* from rows stored under that band's label or under its bare lower bound; a
\* request for '100-199km' takes no rate from rows stored as '1000+km'.
C25_RelaxedTierStaysInBand ==
    RelaxedTierResolved =>
        \A k \in 1..Len(matched) :
            \/ matched[k].distance = distanceRange
            \/ matched[k].distance = RangeStart(distanceRange)

-----------------------------------------------------------------------------
(* Claims on the unresolvable-price error *)

\* C26: the could-not-find-pricing error cannot be reached: with a price table
\* that holds a row, every box that was classified obtains a price, since the
\* nearest-class retry targets a class that has rows, which the class-only tier
\* returns.
C26_UnresolvablePriceUnreachable ==
    /\ thrown # ErrNoPricing
    /\ (LastBoxClassified /\ LastClass # NoClass /\ allPricings # << >>) =>
           /\ thrown = ""
           /\ Len(boxResults) = boxIndex
           /\ \E i \in 1..Len(allPricings) :
                  /\ (\/ ReportedClass = allPricings[i].freightClass * 10
                      \/ MathRound(ReportedClass) = allPricings[i].freightClass)
                  /\ boxResults[Len(boxResults)].unrounded = allPricings[i].price * LastBox.weight

\* at 1500 km, a band no row is stored under, a class 300 box was priced by the
\* nearest class, 250, through the class-only tier
C26_Witness ==
    /\ NearestFallbackTaken
    /\ distanceKm = 1500 * 1000
    /\ allPricings = TiedPricings
    /\ LastClass = 3000
    /\ thrown = ""
    /\ ReportedClass = 2500
    /\ boxResults[Len(boxResults)].unrounded = 2700 * LastBox.weight

-----------------------------------------------------------------------------
(* Claims on the origin of the external rate request *)

\* C27: in every successful response, the origin postal code sent to the external
\* rate provider is the postal code of the chosenWarehouse the response reports,
\* whatever the warehouse_id, the sales_channel_id and the warehouse registry.
C27_RateOriginIsChosenWarehouse ==
    (Answered(200) /\ rateOrigin # "") => rateOrigin = response.chosenWarehouse

-----------------------------------------------------------------------------
(* Claims on the interleavings of the polling loop *)

\* C28: under every interleaving of timer ticks and poll answers, answers slower
\* than the interval and answers out of order included, no more than 30 poll
\* requests are issued and the polling result is decided once: it is set while
\* polling, from undecided, and never changed by a later answer.
C28_ThirtyPollsDecidedOnce ==
    /\ [](attempts <= maxAttempts)
    /\ [][rates' # rates => (pc = "poll" /\ pc' = "rates")]_vars

-----------------------------------------------------------------------------
(* Claims on the boxes of a returned quote *)

\* C29: every quote the service's calculateShipping returns holds at least one
\* BoxQuote; a cart without boxes whose items expand to no box is rejected with
\* an error, not answered with an empty box list and subtotal 0.
C29_ReturnedQuoteHasBoxes ==
    (pc = "returned" /\ quote.returned) =>
        /\ Len(quote.boxes) >= 1
        /\ Len(boxes) >= 1

-----------------------------------------------------------------------------
(* Claims on the amounts of a response *)

\* C30: in every successful response, whichever provenance priced it, total is
\* subtotal x (1 - discountPercent / 100) up to the rounding of the two reported
\* amounts (each to a thousandth of a dollar).
C30_TotalIsDiscountedSubtotal ==
    Answered(200) =>
        /\ ~response.isNaN
        /\ Abs(200 * response.total - 2 * response.subtotal * (100 - response.discountPercent))
               <= 100 + Abs(100 - response.discountPercent)

=========================================================================
